---- MODULE Spec2Model ----
(***************************************************************************)
(* A model of API/datasources/pool.py: ConnectionPool (one pool), its      *)
(* borrowers (tasks calling acquire, release and close), the one-shot      *)
(* initialize() call and the background _cleanup_loop task.                *)
(*                                                                         *)
(* Tasks are asyncio tasks: a step of the model is what one task does      *)
(* between two suspension points (an await that really suspends: a busy    *)
(* lock, an empty queue, connector I/O, the task switch of wait_for); a     *)
(* free lock is entered without suspending.                                *)
(* Time enters through the two comparisons the pool makes with             *)
(* datetime.now(): expired holds the handles whose age exceeded            *)
(* max_lifetime, idle_long those unused for longer than max_idle_time,     *)
(* at the last reading of the clock; each reading may find more of them.   *)
(*                                                                         *)
(* The second part models the catalog of pools, ConnectionPoolManager, and *)
(* the registry that uses it, PooledDataSourceRegistry over                *)
(* DataSourceRegistry (example_pooled_registry.py, registry.py). There a   *)
(* pool is an object with its id, config, _closed flag and connectors;     *)
(* callers are asyncio tasks calling the public operations concurrently.   *)
(* Spec runs one pool in detail with the catalog untouched; SpecCatalog    *)
(* runs the catalog and the registry with that detailed pool untouched.    *)
(***************************************************************************)
EXTENDS Integers, Sequences, FiniteSets, TLC

\* ---------------------------------------------------------------- bounds
NumBorrowers == 2
MaxAcquires == 3
MaxPoolSize == 2
\* a connector is not released again while the queue has this many items
MaxQueue == 3

Borrowers == 1..NumBorrowers
SweepTask == NumBorrowers + 1
InitTask == NumBorrowers + 2
\* every factory() call yields a fresh connector; its index is its identity
MaxHandles == MaxPoolSize + MaxAcquires
Handles == 1..MaxHandles
NoHandle == 0

\* ------------------------------------------------- bounds of the catalog
NumIds == 2
NumCallers == 3
MaxPools == 2
MaxConnectors == 3
MaxCalls == 3

\* data source ids
Ids == 1..NumIds
NoId == 0
\* tasks calling the manager and the registry
Callers == 1..NumCallers
\* every ConnectionPool(...) call yields a new object; its index is its identity
PoolObjs == 1..MaxPools
NoPool == 0
\* connector objects of the catalog's pools and of registration tests
Connectors == 1..MaxConnectors
NoConnector == 0
\* PoolConfig objects: the manager's default and two given by callers
DefaultConfig == "default"
PoolConfigs == {DefaultConfig, "c1", "c2"}
\* the argument config=None
NoConfig == "None"

\* the DataSourceConfig contents a caller registers an id with
DataSourceConfigs == {"a", "b"}

\* no entry for an id in DataSourceRegistry._configs
NotStored == "absent"

VARIABLES
    cfg,            \* PoolConfig: max_size, min_size
    connections,    \* _connections: the live handles
    available,      \* _available: asyncio.Queue of handles
    lock,           \* _lock: the set holding its owner ({} when free)
    closed,         \* _closed
    in_use,         \* PooledConnection.in_use, per handle
    use_count,      \* PooledConnection.use_count, per handle
    expired,        \* handles with now - created_at > max_lifetime
    idle_long,      \* handles with now - last_used > max_idle_time
    disc,           \* number of disconnect() invocations, per connector
    made,           \* whether the last step called _connector_factory()
    pc,             \* per borrower: where its current call is suspended
    conn,           \* per borrower: the local conn / connector of its call
    held,           \* per borrower: connectors acquire returned, not yet released
    nAcq,           \* number of acquire calls that went past the closed check
    raised,         \* the PoolError the last step raised to its caller, or "none"
    spc,            \* the _cleanup_loop task: where it is suspended
    to_remove,      \* _cleanup_connections' to_remove still to be removed
    cancelled,      \* _cleanup_task.cancel() requested and not yet delivered
    ipc,            \* the initialize() call: where it is suspended
    iremaining,     \* initialize(): iterations of range(min_size) left
    ifailed,        \* initialize(): creation attempts that raised, while it runs
    iconn,          \* initialize(): the connector being connected
    todo            \* close(): handles its disconnect loop has not reached

VARIABLES
    pools,          \* ConnectionPoolManager._pools: id -> pool object
    pool,           \* the ConnectionPool objects constructed so far
    mlock,          \* ConnectionPoolManager._lock: its owner ({} when free)
    configs,        \* DataSourceRegistry._configs: id -> stored configuration
    rlock,          \* DataSourceRegistry._lock: its owner ({} when free)
    cdisc,          \* number of disconnect() invocations, per catalog connector
    cpc,            \* per caller: where its current call is suspended
    op,             \* per caller: the operation it called and its arguments
    obj,            \* per caller: the local pool of its call
    rest,           \* per caller: close_all's items not yet iterated
    tst,            \* per caller: the connector its call made and has not stored
    ret,            \* what the last step returned or raised to a caller
    nCalls          \* number of operations called so far

poolVars == <<cfg, connections, available, lock, closed, in_use, use_count, expired,
          idle_long, disc, made, pc, conn, held, nAcq, raised, spc,
          to_remove, cancelled, ipc, iremaining, ifailed, iconn, todo>>

catalogVars == <<pools, pool, mlock, configs, rlock, cdisc, cpc, op, obj, rest,
                 tst, ret, nCalls>>

VARIABLES
    _connectors,    \* DataSourceRegistry._connectors: id -> stored connector
    connected       \* the connectors whose is_connected() is true

registryVars == <<_connectors, connected>>

vars == <<poolVars, catalogVars, registryVars>>

handleVars == <<in_use, use_count, expired, idle_long, disc>>
cleanupVars == <<spc, to_remove, cancelled>>
initVars == <<ipc, iremaining, ifailed, iconn>>

Range(q) == {q[i] : i \in 1..Len(q)}

\* ------------------------------------------------------- PooledConnection
\* (datetime.now() - self.created_at).total_seconds() > max_lifetime
is_expired(h) == h \in expired

\* False when in use, else (datetime.now() - self.last_used) > max_idle_time
is_idle_too_long(h) == IF in_use[h] THEN FALSE ELSE h \in idle_long

\* what mark_used does to use_count
Bump(n) == n + 1

mark_used(h) ==
    /\ in_use' = [in_use EXCEPT ![h] = TRUE]
    /\ idle_long' = idle_long \ {h}
    /\ use_count' = [use_count EXCEPT ![h] = Bump(@)]

\* faulty variant of mark_released: the in_use flag is left set
mark_released_still_used(h) ==
    /\ in_use' = in_use
    /\ idle_long' = idle_long \ {h}

mark_released(h) ==
    /\ in_use' = [in_use EXCEPT ![h] = FALSE]
    /\ idle_long' = idle_long \ {h}

\* a handle nothing refers to any more is garbage: its fields are forgotten
Referenced ==
    connections \cup Range(available) \cup Range(to_remove) \cup todo
        \cup UNION {held[t] : t \in Borrowers} \cup {conn[t] : t \in Borrowers}
        \cup {iconn}

\* the connector a factory call returns: a new object (numbers are reused
\* once nothing refers to the object that bore them)
FreshAfter(used) == CHOOSE h \in Handles \ used : \A g \in Handles \ used : h <= g

Fresh == FreshAfter(Referenced)

Kept(f, default, live) == [h \in Handles |-> IF h \in live THEN f[h] ELSE default]

\* the handle fields after a step that drops references, disc becoming d
Collect(d) ==
    /\ in_use' = Kept(in_use, FALSE, Referenced')
    /\ use_count' = Kept(use_count, 0, Referenced')
    /\ expired' = expired \cap connections'
    /\ idle_long' = idle_long \cap connections'
    /\ disc' = Kept(d, 0, Referenced')

\* ------------------------------------------------------------- accessors
size == Cardinality(connections)

available_count == Len(available)

_count_in_use == Cardinality({h \in connections : in_use[h]})

in_use_count == _count_in_use

Free == lock = {}

\* faulty variant of Unlock: the lock is kept on the way out
UnlockLeaks(t) == lock

\* leaving "async with self._lock"
Unlock(t) == IF lock = {t} THEN {} ELSE lock

\* --------------------------------------------------------------- initial
\* a ConnectionPool object before the constructor has run for it
UnbornPool ==
    [data_source_id |-> NoId, config |-> "none", closed |-> FALSE,
     initialized |-> 0, connections |-> {}]

\* a caller that is in no call
NoOp == [name |-> "none", id |-> NoId, config |-> "none", test |-> FALSE]

\* a step that returns nothing to any caller
NoRet == [task |-> 0, call |-> NoOp, kind |-> "none", value |-> 0]

\* DataSourceRegistry._encrypt_config(config): a copy whose config dict is
\* the single entry {"_encrypted": ciphertext of the original dict}
_encrypt_config(c) == IF c = "a" THEN "_encrypted(a)" ELSE "_encrypted(b)"

\* ConnectionPoolManager() and the registry around it, in which the ids cs
\* were registered with the first configuration
CatalogWith(cs) ==
    /\ pools = [i \in Ids |-> NoPool]
    /\ pool = [p \in PoolObjs |-> UnbornPool]
    /\ mlock = {}
    /\ configs = [i \in Ids |-> IF i \in cs THEN _encrypt_config("a")
                                           ELSE NotStored]
    /\ rlock = {}
    /\ cdisc = [c \in Connectors |-> 0]
    /\ cpc = [t \in Callers |-> "idle"]
    /\ op = [t \in Callers |-> NoOp]
    /\ obj = [t \in Callers |-> NoPool]
    /\ rest = [t \in Callers |-> {}]
    /\ tst = [t \in Callers |-> NoConnector]
    /\ ret = NoRet
    /\ nCalls = 0
    /\ _connectors = [i \in Ids |-> NoConnector]
    /\ connected = {}

\* ConnectionPool(data_source_id, connector_factory, config)
PoolCreated ==
    /\ cfg \in {c \in [max_size : 1..MaxPoolSize, min_size : 0..MaxPoolSize] :
                    c.min_size <= c.max_size}
    /\ connections = {}
    /\ available = <<>>
    /\ lock = {}
    /\ closed = FALSE
    /\ in_use = [h \in Handles |-> FALSE]
    /\ use_count = [h \in Handles |-> 0]
    /\ expired = {}
    /\ idle_long = {}
    /\ disc = [h \in Handles |-> 0]
    /\ made = FALSE
    /\ pc = [t \in Borrowers |-> "idle"]
    /\ conn = [t \in Borrowers |-> NoHandle]
    /\ held = [t \in Borrowers |-> {}]
    /\ nAcq = 0
    /\ raised = "none"
    /\ spc = "none"
    /\ to_remove = <<>>
    /\ cancelled = FALSE
    /\ ipc = "created"
    /\ iremaining = 0
    /\ ifailed = 0
    /\ iconn = NoHandle
    /\ todo = {}

\* one pool, constructed directly; no catalog operation is ever called
Init == PoolCreated /\ CatalogWith({})

\* ------------------------------------------------------------ initialize
\* faulty variant of Put: the handle is not queued
PutNothing(q, h) == q

\* await self._available.put(conn): the queue is unbounded, put never waits
Put(q, h) == Append(q, h)

\* connector = self._connector_factory()
CallFactory == made' = TRUE

NoFactory == made' = FALSE

\* async with self._lock: for _ in range(min_size): conn = await _create_connection()
InitializeBegin ==
    /\ ipc = "created"
    /\ Free
    /\ IF cfg.min_size = 0
       THEN /\ ipc' = "done"
            /\ spc' = "s_new"
            /\ NoFactory
            /\ UNCHANGED <<lock, iremaining, iconn>>
       ELSE /\ lock' = {InitTask}
            /\ CallFactory
            /\ iconn' = Fresh
            /\ iremaining' = cfg.min_size
            /\ ipc' = "i_connect"
            /\ UNCHANGED spc
    /\ raised' = "none"
    /\ UNCHANGED <<registryVars, catalogVars, cfg, connections, available, closed, handleVars, pc, conn,
                   held, nAcq, to_remove, cancelled, ifailed, todo>>

\* connect() returns or raises; on success _connections.add(conn) and
\* _available.put(conn); after the last iteration the lock is released and
\* the cleanup task is created
InitializeConnected ==
    /\ ipc = "i_connect"
    /\ \E ok \in BOOLEAN :
         IF ok
         THEN /\ connections' = connections \cup {iconn}
              /\ available' = Put(available, iconn)
              /\ ifailed' = IF iremaining > 1 THEN ifailed ELSE 0
         ELSE /\ ifailed' = IF iremaining > 1 THEN ifailed + 1 ELSE 0
              /\ UNCHANGED <<connections, available>>
    /\ iremaining' = iremaining - 1
    /\ IF iremaining > 1
       THEN /\ CallFactory
            /\ iconn' = FreshAfter(Referenced)
            /\ UNCHANGED <<lock, ipc, spc>>
       ELSE /\ lock' = Unlock(InitTask)
            /\ ipc' = "done"
            /\ spc' = "s_new"
            /\ iconn' = NoHandle
            /\ NoFactory
    /\ raised' = "none"
    /\ UNCHANGED <<registryVars, catalogVars, cfg, closed, handleVars, pc, conn, held, nAcq, to_remove,
                   cancelled, todo>>

\* borrowers use the pool once initialize() has been called
\* (ConnectionPoolManager.get_pool awaits it before returning the pool);
\* close() may come at any time
Started == ipc # "created"

\* --------------------------------------------------------------- acquire
\* faulty variant of AcquireSeesClosed: the closed check is missing
AcquireIgnoresClosed == FALSE

\* if self._closed: raise PoolError(... is closed)
AcquireSeesClosed == closed

\* faulty variant of AtCapacity: the comparison is off by one
AtCapacityOffByOne == size > cfg.max_size

\* faulty variant of AtCapacity: the pool never grows on demand
AtCapacityAlways == TRUE

\* if len(self._connections) >= self.config.max_size
AtCapacity == size >= cfg.max_size

\* faulty variant of QueueNonEmpty: the queue is never looked at
QueueSkipped == FALSE

\* self._available.get_nowait() does not raise QueueEmpty
QueueNonEmpty == available # <<>>

\* faulty variant of QueueAfterGet: the handle is read but not taken out
QueueAfterPeek == available

\* self._available.get_nowait(): what is left in the queue
QueueAfterGet == Tail(available)

\* acquire(): the closed check, then wait_for schedules _get_or_create_connection
AcquireStart(t) ==
    /\ Started
    /\ pc[t] = "idle"
    /\ NoFactory
    /\ IF AcquireSeesClosed
       THEN /\ raised' = "closed"
            /\ UNCHANGED <<pc, nAcq>>
       ELSE /\ nAcq < MaxAcquires
            /\ nAcq' = nAcq + 1
            /\ raised' = "none"
            /\ pc' = [pc EXCEPT ![t] = "a_begin"]
    /\ UNCHANGED <<registryVars, catalogVars, cfg, connections, available, lock, closed, handleVars,
                   conn, held, cleanupVars, initVars, todo>>

\* the body of "async with self._lock" in _get_or_create_connection: at
\* capacity wait on the queue (holding the lock), else call the factory and
\* connect (holding the lock)
AcquireUnderLock(t) ==
    IF AtCapacity
    THEN IF available # <<>>
         THEN /\ conn' = [conn EXCEPT ![t] = Head(available)]
              /\ available' = QueueAfterGet
              /\ pc' = [pc EXCEPT ![t] = "a_got"]
              /\ NoFactory
              /\ UNCHANGED lock
         ELSE /\ lock' = {t}
              /\ pc' = [pc EXCEPT ![t] = "a_waitq"]
              /\ NoFactory
              /\ UNCHANGED <<conn, available>>
    ELSE /\ lock' = {t}
         /\ CallFactory
         /\ conn' = [conn EXCEPT ![t] = Fresh]
         /\ pc' = [pc EXCEPT ![t] = "a_connect"]
         /\ UNCHANGED available

\* _get_or_create_connection starts: try get_nowait; on QueueEmpty enter the
\* lock (at once when it is free, else wait for it)
AcquireTry(t) ==
    /\ pc[t] = "a_begin"
    /\ IF QueueNonEmpty
       THEN /\ conn' = [conn EXCEPT ![t] = Head(available)]
            /\ available' = QueueAfterGet
            /\ pc' = [pc EXCEPT ![t] = "a_got"]
            /\ NoFactory
            /\ UNCHANGED lock
       ELSE IF Free
            THEN AcquireUnderLock(t)
            ELSE /\ pc' = [pc EXCEPT ![t] = "a_lock"]
                 /\ NoFactory
                 /\ UNCHANGED <<conn, available, lock>>
    /\ raised' = "none"
    /\ UNCHANGED <<registryVars, catalogVars, cfg, connections, closed, handleVars, held, nAcq,
                   cleanupVars, initVars, todo>>

\* the lock the call waited for is free
AcquireLocked(t) ==
    /\ pc[t] = "a_lock"
    /\ Free
    /\ AcquireUnderLock(t)
    /\ raised' = "none"
    /\ UNCHANGED <<registryVars, catalogVars, cfg, connections, closed, handleVars, held, nAcq,
                   cleanupVars, initVars, todo>>

\* connect() returns: _connections.add(conn), return conn; or it raises:
\* PoolError("Failed to create connection"); either way the lock is released
AcquireConnected(t) ==
    /\ pc[t] = "a_connect"
    /\ NoFactory
    /\ lock' = Unlock(t)
    /\ \E ok \in BOOLEAN :
         IF ok
         THEN /\ connections' = connections \cup {conn[t]}
              /\ pc' = [pc EXCEPT ![t] = "a_got"]
              /\ raised' = "none"
              /\ UNCHANGED conn
         ELSE /\ pc' = [pc EXCEPT ![t] = "idle"]
              /\ conn' = [conn EXCEPT ![t] = NoHandle]
              /\ raised' = "create_failed"
              /\ UNCHANGED connections
    /\ UNCHANGED <<registryVars, catalogVars, cfg, available, closed, handleVars, held,
                   nAcq, cleanupVars, initVars, todo>>

\* await self._available.get() ends: an item was put (the getter is woken)
\* or wait_for's timeout cancels the wait; the lock is released on the way out
AcquireWaitEnds(t) ==
    /\ pc[t] = "a_waitq"
    /\ NoFactory
    /\ lock' = Unlock(t)
    /\ IF available # <<>>
       THEN /\ conn' = [conn EXCEPT ![t] = Head(available)]
            /\ available' = QueueAfterGet
            /\ pc' = [pc EXCEPT ![t] = "a_got"]
            /\ raised' = "none"
       ELSE /\ pc' = [pc EXCEPT ![t] = "idle"]
            /\ raised' = "timeout"
            /\ UNCHANGED <<conn, available>>
    /\ UNCHANGED <<registryVars, catalogVars, cfg, connections, closed, handleVars, held,
                   nAcq, cleanupVars, initVars, todo>>

\* wait_for's timeout while waiting for the lock or inside connect():
\* CancelledError unwinds _get_or_create_connection, acquire raises PoolError
AcquireTimeout(t) ==
    /\ pc[t] \in {"a_lock", "a_connect"}
    /\ lock' = Unlock(t)
    /\ pc' = [pc EXCEPT ![t] = "idle"]
    /\ conn' = [conn EXCEPT ![t] = NoHandle]
    /\ raised' = "timeout"
    /\ NoFactory
    /\ UNCHANGED <<registryVars, catalogVars, cfg, connections, available, closed, handleVars,
                   held, nAcq, cleanupVars, initVars, todo>>

\* conn.mark_used(); return conn.connector
AcquireReturn(t) ==
    /\ pc[t] = "a_got"
    /\ mark_used(conn[t])
    /\ held' = [held EXCEPT ![t] = @ \cup {conn[t]}]
    /\ conn' = [conn EXCEPT ![t] = NoHandle]
    /\ pc' = [pc EXCEPT ![t] = "idle"]
    /\ raised' = "none"
    /\ NoFactory
    /\ UNCHANGED <<registryVars, catalogVars, cfg, connections, available, lock, closed, expired, disc,
                   nAcq, cleanupVars, initVars, todo>>

\* --------------------------------------------------------------- release
\* faulty variant of Discard: the handle stays in the live set
DiscardNothing(h) == connections

\* self._connections.discard(conn)
Discard(h) == connections \ {h}

\* faulty variant of Disconnected: disconnect() is not invoked
NotDisconnected(h) == disc

\* conn.connector.disconnect() is invoked once more
Disconnected(h) == [disc EXCEPT ![h] = @ + 1]

\* faulty variant of Lookup: every connector is taken for a live handle
LookupFindsAny(h) == h

\* for conn in self._connections: if conn.connector is connector
Lookup(h) == IF h \in connections THEN h ELSE NoHandle

\* the body of "async with self._lock" in release, up to the health check:
\* look the handle up; unknown: return; else await test_connection()
ReleaseUnderLock(t, h) ==
    IF Lookup(h) = NoHandle
    THEN /\ pc' = [pc EXCEPT ![t] = "idle"]
         /\ conn' = [conn EXCEPT ![t] = NoHandle]
         /\ UNCHANGED lock
         /\ Collect(disc)
    ELSE /\ lock' = {t}
         /\ pc' = [pc EXCEPT ![t] = "r_test"]
         /\ conn' = [conn EXCEPT ![t] = h]
         /\ UNCHANGED handleVars

\* faulty variant of ReleaseSeesClosed: release does not look at _closed
ReleaseIgnoresClosed == FALSE

\* release(): if self._closed
ReleaseSeesClosed == closed

\* release(connector): on a closed pool disconnect the connector directly,
\* else enter the lock (at once when it is free, else wait for it)
ReleaseStart(t) ==
    /\ pc[t] = "idle"
    /\ raised' = "none"
    /\ NoFactory
    /\ UNCHANGED <<registryVars, catalogVars, cfg, connections, available, closed, nAcq, cleanupVars,
                   initVars, todo>>
    /\ \E h \in held[t] :
         /\ held' = [held EXCEPT ![t] = @ \ {h}]
         /\ IF ReleaseSeesClosed
            THEN /\ disc' = Disconnected(h)
                 /\ conn' = [conn EXCEPT ![t] = h]
                 /\ pc' = [pc EXCEPT ![t] = "r_closed"]
                 /\ UNCHANGED <<lock, in_use, use_count, expired, idle_long>>
            ELSE IF Free
                 THEN ReleaseUnderLock(t, h)
                 ELSE /\ conn' = [conn EXCEPT ![t] = h]
                      /\ pc' = [pc EXCEPT ![t] = "r_lock"]
                      /\ UNCHANGED <<lock, handleVars>>

\* the direct disconnect of a closed pool's release returns
ReleaseClosedDone(t) ==
    /\ pc[t] = "r_closed"
    /\ conn' = [conn EXCEPT ![t] = NoHandle]
    /\ pc' = [pc EXCEPT ![t] = "idle"]
    /\ raised' = "none"
    /\ NoFactory
    /\ UNCHANGED <<registryVars, catalogVars, cfg, connections, available, lock, closed, held, nAcq, cleanupVars, initVars, todo>>
    /\ Collect(disc)

\* the lock the release waited for is free
ReleaseLocked(t) ==
    /\ pc[t] = "r_lock"
    /\ Free
    /\ raised' = "none"
    /\ NoFactory
    /\ UNCHANGED <<registryVars, catalogVars, cfg, connections, available, closed, held, nAcq,
                   cleanupVars, initVars, todo>>
    /\ ReleaseUnderLock(t, conn[t])

\* datetime.now() is read for the handles of S: by now more of them may have
\* outlived max_lifetime than at the last reading
ClockAt(S) ==
    {e \in SUBSET connections : expired \subseteq e /\ e \subseteq expired \cup S}

\* ... and more of them may have been unused for longer than max_idle_time
IdleAt(S) ==
    {i \in SUBSET connections : idle_long \subseteq i /\ i \subseteq idle_long \cup S}

\* the outcomes of test_connection()
HealthOutcomes == {"healthy", "unhealthy", "raises"}

\* not is_healthy, or the check raised, or pooled_conn.is_expired(max_lifetime)
MustRemove(outcome, h) == outcome # "healthy" \/ is_expired(h)

\* test_connection() returns or raises and the clock is read: remove the
\* handle (its disconnect is invoked), or mark_released and put it back and
\* leave the lock
ReleaseTested(t) ==
    /\ pc[t] = "r_test"
    /\ \E outcome \in HealthOutcomes, h \in {conn[t]}, e \in ClockAt({conn[t]}) :
         /\ expired' = e
         /\ IF MustRemove(outcome, h)'
            THEN /\ disc' = Disconnected(conn[t])
                 /\ pc' = [pc EXCEPT ![t] = "r_disc"]
                 /\ UNCHANGED <<available, lock, in_use, idle_long, conn>>
            ELSE /\ mark_released(conn[t])
                 /\ available' = Put(available, conn[t])
                 /\ lock' = Unlock(t)
                 /\ conn' = [conn EXCEPT ![t] = NoHandle]
                 /\ pc' = [pc EXCEPT ![t] = "idle"]
                 /\ UNCHANGED disc
    /\ raised' = "none"
    /\ NoFactory
    /\ UNCHANGED <<registryVars, catalogVars, cfg, connections, closed, use_count, held, nAcq,
                   cleanupVars, initVars, todo>>

\* _remove_connection: disconnect() returned (or raised, which is logged):
\* discard the handle; release returns
ReleaseRemoved(t) ==
    /\ pc[t] = "r_disc"
    /\ connections' = Discard(conn[t])
    /\ lock' = Unlock(t)
    /\ conn' = [conn EXCEPT ![t] = NoHandle]
    /\ pc' = [pc EXCEPT ![t] = "idle"]
    /\ raised' = "none"
    /\ NoFactory
    /\ UNCHANGED <<registryVars, catalogVars, cfg, available, closed, held, nAcq,
                   cleanupVars, initVars, todo>>
    /\ Collect(disc)

\* ----------------------------------------------------------------- close
\* the body of "async with self._lock" in close: start disconnecting the
\* live handles; with none, clear the queue and return
CloseUnderLock(t) ==
    IF connections = {}
    THEN /\ available' = <<>>
         /\ pc' = [pc EXCEPT ![t] = "idle"]
         /\ UNCHANGED <<lock, todo>>
         /\ Collect(disc)
    ELSE /\ lock' = {t}
         /\ \E h \in connections :
              /\ disc' = Disconnected(h)
              /\ todo' = connections \ {h}
         /\ pc' = [pc EXCEPT ![t] = "c_disc"]
         /\ UNCHANGED <<available, in_use, use_count, expired, idle_long>>

\* faulty variant of AlreadyClosed: close() does not look at _closed
CloseAlways == FALSE

\* close(): if self._closed: return
AlreadyClosed == closed

\* close(): return if closed; else _closed = True; with a cleanup task,
\* cancel it and await it; without one enter the lock (at once when it is
\* free, else wait for it)
CloseStart(t) ==
    /\ pc[t] = "idle"
    /\ raised' = "none"
    /\ NoFactory
    /\ UNCHANGED <<registryVars, catalogVars, cfg, connections, conn, held, nAcq, spc, to_remove, initVars>>
    /\ IF AlreadyClosed
       THEN UNCHANGED <<closed, cancelled, pc, available, lock, todo, handleVars>>
       ELSE /\ closed' = TRUE
            /\ IF spc = "none"
               THEN /\ UNCHANGED cancelled
                    /\ IF Free
                       THEN CloseUnderLock(t)
                       ELSE /\ pc' = [pc EXCEPT ![t] = "c_lock"]
                            /\ UNCHANGED <<available, lock, todo, handleVars>>
               ELSE /\ cancelled' = (spc # "done")
                    /\ pc' = [pc EXCEPT ![t] = "c_await"]
                    /\ UNCHANGED <<available, lock, todo, handleVars>>

\* await self._cleanup_task returns once the task has ended; then enter the
\* lock (at once when it is free, else wait for it)
CloseAwaited(t) ==
    /\ pc[t] = "c_await"
    /\ spc = "done"
    /\ raised' = "none"
    /\ NoFactory
    /\ UNCHANGED <<registryVars, catalogVars, cfg, connections, closed, conn, held, nAcq, cleanupVars,
                   initVars>>
    /\ IF Free
       THEN CloseUnderLock(t)
       ELSE /\ pc' = [pc EXCEPT ![t] = "c_lock"]
            /\ UNCHANGED <<available, lock, todo, handleVars>>

\* the lock close() waited for is free
CloseLocked(t) ==
    /\ pc[t] = "c_lock"
    /\ Free
    /\ raised' = "none"
    /\ NoFactory
    /\ UNCHANGED <<registryVars, catalogVars, cfg, connections, closed, conn, held, nAcq, cleanupVars,
                   initVars>>
    /\ CloseUnderLock(t)

\* a disconnect() of the loop returned: the next one, or _connections.clear(),
\* empty the queue and leave the lock
CloseDisconnected(t) ==
    /\ pc[t] = "c_disc"
    /\ raised' = "none"
    /\ NoFactory
    /\ UNCHANGED <<registryVars, catalogVars, cfg, closed, conn, held, nAcq, cleanupVars,
                   initVars>>
    /\ IF todo # {}
       THEN /\ \E h \in todo :
                 /\ disc' = Disconnected(h)
                 /\ todo' = todo \ {h}
            /\ UNCHANGED <<connections, available, lock, pc, in_use, use_count,
                           expired, idle_long>>
       ELSE /\ connections' = {}
            /\ available' = <<>>
            /\ lock' = Unlock(t)
            /\ pc' = [pc EXCEPT ![t] = "idle"]
            /\ UNCHANGED todo
            /\ Collect(disc)

\* --------------------------------------------------------- _cleanup_loop
\* the orders in which "for conn in self._connections" may visit the set
Orders(S) ==
    {o \in [1..Cardinality(S) -> S] : \A i, j \in 1..Cardinality(S) : o[i] = o[j] => i = j}

\* faulty variant of Select: the min_size floor is not tested
SelectNoFloor(h, acc) ==
    IF in_use[h] THEN acc
    ELSE IF is_expired(h) THEN Append(acc, h)
    ELSE IF is_idle_too_long(h) THEN Append(acc, h)
    ELSE acc

\* faulty variant of Select: only expired handles are selected
SelectExpiredOnly(h, acc) ==
    IF in_use[h] THEN acc
    ELSE IF Cardinality(connections) - Len(acc) <= cfg.min_size THEN acc
    ELSE IF is_expired(h) THEN Append(acc, h)
    ELSE acc

\* one iteration of the selection loop: to_remove after visiting h
Select(h, acc) ==
    IF in_use[h] THEN acc
    ELSE IF size - Len(acc) <= cfg.min_size THEN acc
    ELSE IF is_expired(h) THEN Append(acc, h)
    ELSE IF is_idle_too_long(h) THEN Append(acc, h)
    ELSE acc

RECURSIVE Scan(_, _)
Scan(order, acc) ==
    IF order = <<>> THEN acc ELSE Scan(Tail(order), Select(Head(order), acc))

\* the handles a pass asks the clock about: "if conn.in_use: continue"
Unused == {h \in connections : ~in_use[h]}

\* while not self._closed: (after a pass, or when the task first runs)
LoopHead == IF closed THEN "done" ELSE "s_sleep"

SweepStart ==
    /\ spc = "s_new"
    /\ ~cancelled
    /\ spc' = LoopHead
    /\ raised' = "none"
    /\ NoFactory
    /\ UNCHANGED <<registryVars, catalogVars, cfg, connections, available, lock, closed, handleVars,
                   pc, conn, held, nAcq, to_remove, cancelled,
                   initVars, todo>>

\* asyncio.sleep(60) has returned and the lock is free: under the lock, read
\* the clock, select to_remove and start removing its first handle
SweepScan ==
    /\ spc = "s_sleep"
    /\ ~cancelled
    /\ Free
    /\ UNCHANGED <<registryVars, catalogVars, cfg, connections, available, closed, in_use, use_count, pc,
                   conn, held, nAcq, cancelled, initVars, todo>>
    /\ \E e \in ClockAt(Unused), i \in IdleAt(Unused) :
         /\ expired' = e
         /\ idle_long' = i
         /\ \E order \in Orders(connections) :
              LET sel == Scan(order, <<>>)' IN
              IF sel = <<>>
              THEN /\ spc' = LoopHead
                   /\ UNCHANGED <<lock, disc, to_remove>>
              ELSE /\ lock' = {SweepTask}
                   /\ disc' = Disconnected(Head(sel))
                   /\ to_remove' = sel
                   /\ spc' = "s_remove"
    /\ raised' = "none"
    /\ NoFactory

\* _remove_connection(to_remove[0]) ends: discard it; then the next handle,
\* or the pass is over and the lock is released
SweepRemoved ==
    /\ spc = "s_remove"
    /\ ~cancelled
    /\ connections' = Discard(Head(to_remove))
    /\ to_remove' = Tail(to_remove)
    /\ raised' = "none"
    /\ NoFactory
    /\ UNCHANGED <<registryVars, catalogVars, cfg, available, closed, pc, conn, held, nAcq,
                   cancelled, initVars, todo>>
    /\ IF Tail(to_remove) # <<>>
       THEN /\ UNCHANGED <<lock, spc>>
            /\ Collect(Disconnected(Head(Tail(to_remove))))
       ELSE /\ lock' = Unlock(SweepTask)
            /\ spc' = LoopHead
            /\ Collect(disc)

\* CancelledError is delivered at the task's await: the lock is left, the
\* loop breaks
SweepCancelled ==
    /\ cancelled
    /\ spc # "done"
    /\ cancelled' = FALSE
    /\ spc' = "done"
    /\ to_remove' = <<>>
    /\ lock' = Unlock(SweepTask)
    /\ raised' = "none"
    /\ NoFactory
    /\ UNCHANGED <<registryVars, catalogVars, cfg, connections, available, closed, pc,
                   conn, held, nAcq, initVars, todo>>
    /\ Collect(disc)

\* ------------------------------------------------------------------ spec
Next ==
    \/ InitializeBegin
    \/ InitializeConnected
    \/ \E t \in Borrowers :
         \/ AcquireStart(t)
         \/ AcquireTry(t)
         \/ AcquireLocked(t)
         \/ AcquireConnected(t)
         \/ AcquireWaitEnds(t)
         \/ AcquireTimeout(t)
         \/ AcquireReturn(t)
         \/ ReleaseStart(t)
         \/ ReleaseClosedDone(t)
         \/ ReleaseLocked(t)
         \/ ReleaseTested(t)
         \/ ReleaseRemoved(t)
         \/ CloseStart(t)
         \/ CloseAwaited(t)
         \/ CloseLocked(t)
         \/ CloseDisconnected(t)
    \/ SweepStart
    \/ SweepScan
    \/ SweepRemoved
    \/ SweepCancelled

Spec == Init /\ [][Next]_vars

\* the live handles whose connector was handed out by acquire, has been
\* released and is available: the caller that released it still has the
\* reference
HandedBack ==
    {h \in connections \cap Range(available) :
        /\ use_count[h] > 0
        /\ ~in_use[h]
        /\ \A t \in Borrowers : h \notin held[t] /\ conn[t] # h}

\* release(connector) accepts any connector: here, on an open pool, one
\* that its caller has released before; the call enters the lock (at once
\* when it is free, else it waits for it) and runs as every release does
ReleaseAgain(t) ==
    /\ pc[t] = "idle"
    /\ ~ReleaseSeesClosed
    /\ Len(available) < MaxQueue
    /\ raised' = "none"
    /\ NoFactory
    /\ UNCHANGED <<registryVars, catalogVars, cfg, connections, available, closed, held,
                   nAcq, cleanupVars, initVars, todo>>
    /\ \E h \in HandedBack :
         IF Free
         THEN ReleaseUnderLock(t, h)
         ELSE /\ conn' = [conn EXCEPT ![t] = h]
              /\ pc' = [pc EXCEPT ![t] = "r_lock"]
              /\ UNCHANGED <<lock, handleVars>>

\* the pool with callers that may release a connector more than once
NextReleaseAgain ==
    \/ Next
    \/ \E t \in Borrowers : ReleaseAgain(t)

SpecReleaseAgain == Init /\ [][NextReleaseAgain]_vars

TypeOK ==
    /\ connections \subseteq Handles
    /\ lock \subseteq (Borrowers \cup {SweepTask, InitTask})
    /\ Cardinality(lock) <= 1
    /\ Referenced \subseteq Handles \cup {NoHandle}

\* ================================================================ catalog
\* ConnectionPoolManager (pool.py) and PooledDataSourceRegistry over
\* DataSourceRegistry (example_pooled_registry.py, registry.py)
MFree == mlock = {}

RFree == rlock = {}

\* connector objects something still refers to
ReferencedConnectors ==
    UNION {pool[p].connections : p \in PoolObjs}
       \cup {tst[t] : t \in Callers} \cup {_connectors[i] : i \in Ids}

FreeConnectors == Connectors \ ReferencedConnectors

\* the connector a factory call returns: a new object
FreshConnector == CHOOSE c \in FreeConnectors : \A d \in FreeConnectors : c <= d

UnbornPools == {p \in PoolObjs : pool[p].data_source_id = NoId}

\* the object ConnectionPool(...) returns: a new one
FreshPool == CHOOSE p \in UnbornPools : \A q \in UnbornPools : p <= q

\* the ids that have a pool in the catalog
Catalogued == {i \in Ids : pools[i] # NoPool}

\* the keys of DataSourceRegistry._connectors; the pooled registry overrides
\* get_connector, the only method that stores into it, so it has none
WithConnector == {i \in Ids : _connectors[i] # NoConnector}

\* one more disconnect() invocation on each connector of S
DisconnectedAll(S) ==
    [c \in Connectors |-> IF c \in S THEN cdisc[c] + 1 ELSE cdisc[c]]

\* the call o of caller t returns value / raises error
Returned(t, o, value) ==
    [task |-> t, call |-> o, kind |-> "returned", value |-> value]

Raised(t, o, error) == [task |-> t, call |-> o, kind |-> error, value |-> 0]

\* the call of t is over, leaving r to its caller
Done(t, r) ==
    /\ cpc' = [cpc EXCEPT ![t] = "idle"]
    /\ op' = [op EXCEPT ![t] = NoOp]
    /\ obj' = [obj EXCEPT ![t] = NoPool]
    /\ ret' = r

\* the call o of t suspends at label l with local pool p
Suspend(t, o, l, p) ==
    /\ cpc' = [cpc EXCEPT ![t] = l]
    /\ op' = [op EXCEPT ![t] = o]
    /\ obj' = [obj EXCEPT ![t] = p]
    /\ ret' = NoRet

\* caller t calls an operation
Call(t) ==
    /\ cpc[t] = "idle"
    /\ nCalls < MaxCalls
    /\ nCalls' = nCalls + 1

\* ------------------------------------------------------------- get_pool
\* faulty variant of PoolKnown: the catalog is not consulted
PoolNeverKnown(id) == FALSE

\* data_source_id in self._pools
PoolKnown(id) == pools[id] # NoPool

\* faulty variant of ChosenConfig: the given config is ignored
ChosenDefault(c) == DefaultConfig

\* pool_config = config or self._default_config
ChosenConfig(c) == IF c = NoConfig THEN DefaultConfig ELSE c

\* faulty variant of Registered: every id passes for registered
AlwaysRegistered(id) == TRUE

\* faulty variant of Registered: no id passes for registered
NeverRegistered(id) == FALSE

\* data_source_id in self._configs
Registered(id) == configs[id] # NotStored

\* get_pool hands pool p to its caller; PooledDataSourceRegistry.get_connector
\* goes on with pool.acquire(): PoolError at once on a closed pool, else the
\* call suspends in wait_for
AfterGetPool(t, o, p) ==
    /\ UNCHANGED <<configs, rlock>>
    /\ IF o.name = "get_pool"
       THEN Done(t, Returned(t, o, p))
       ELSE IF pool'[p].closed
            THEN Done(t, Raised(t, o, "PoolError"))
            ELSE Suspend(t, o, "gc_acquire", p)

\* the body of "async with self._lock" in get_pool: return the id's pool,
\* or construct one and await its initialize()
GetPoolUnderLock(t, o) ==
    IF PoolKnown(o.id)
    THEN /\ UNCHANGED <<pools, pool, cdisc, rest>>
         /\ mlock' = {}
         /\ AfterGetPool(t, o, pools[o.id])
    ELSE /\ UnbornPools # {}
         /\ pool' = [pool EXCEPT ![FreshPool] =
                        [data_source_id |-> o.id,
                         config |-> ChosenConfig(o.config),
                         closed |-> FALSE,
                         initialized |-> 0,
                         connections |-> {}]]
         /\ mlock' = {t}
         /\ Suspend(t, o, "gp_init", FreshPool)
         /\ UNCHANGED <<pools, cdisc, rest, configs, rlock>>

\* get_pool / get_connector enter the manager's lock (at once when it is
\* free, else wait for it)
EnterGetPool(t, o) ==
    IF MFree
    THEN GetPoolUnderLock(t, o)
    ELSE /\ Suspend(t, o, "gp_lock", NoPool)
         /\ UNCHANGED <<pools, pool, mlock, cdisc, rest, configs, rlock>>

\* ConnectionPoolManager.get_pool(data_source_id, connector_factory, config)
GetPool(t) ==
    /\ Call(t)
    /\ \E id \in Ids, c \in PoolConfigs \cup {NoConfig} :
         EnterGetPool(t, [name |-> "get_pool", id |-> id, config |-> c,
                          test |-> FALSE])
    /\ UNCHANGED <<registryVars, poolVars, tst>>

\* PooledDataSourceRegistry.get_connector(data_source_id): RegistryError for
\* an id without configuration, else get_pool(id, factory)
GetConnector(t) ==
    /\ Call(t)
    /\ \E id \in Ids :
         IF Registered(id)
         THEN EnterGetPool(t, [name |-> "get_connector", id |-> id,
                               config |-> NoConfig, test |-> FALSE])
         ELSE /\ Done(t, Raised(t, [name |-> "get_connector", id |-> id,
                                        config |-> NoConfig, test |-> FALSE],
                                    "RegistryError"))
              /\ UNCHANGED <<pools, pool, mlock, cdisc, rest, configs, rlock>>
    /\ UNCHANGED <<registryVars, poolVars, tst>>

\* the manager's lock a get_pool waited for is free
GetPoolLocked(t) ==
    /\ cpc[t] = "gp_lock"
    /\ MFree
    /\ GetPoolUnderLock(t, op[t])
    /\ UNCHANGED <<registryVars, poolVars, tst, nCalls>>

\* pool.initialize() returns (min_size = 1: one creation attempt, which may
\* fail and is then skipped): register the pool, leave the lock
GetPoolInitialized(t) ==
    /\ cpc[t] = "gp_init"
    /\ \E ok \in BOOLEAN :
         /\ ok => FreeConnectors # {}
         /\ pool' = [pool EXCEPT
                       ![obj[t]].initialized = @ + 1,
                       ![obj[t]].connections =
                            IF ok THEN {FreshConnector} ELSE {}]
         /\ cdisc' = IF ok THEN [cdisc EXCEPT ![FreshConnector] = 0] ELSE cdisc
    /\ pools' = [pools EXCEPT ![op[t].id] = obj[t]]
    /\ mlock' = {}
    /\ AfterGetPool(t, op[t], obj[t])
    /\ UNCHANGED <<registryVars, poolVars, rest, tst, nCalls>>

\* pool.acquire() ends: a connector of the pool, a newly created one, or
\* PoolError after acquire_timeout
ConnectorAcquired(t) ==
    /\ cpc[t] = "gc_acquire"
    /\ \/ /\ \E c \in pool[obj[t]].connections : Done(t, Returned(t, op[t], c))
          /\ UNCHANGED <<pool, cdisc>>
       \/ /\ pool[obj[t]].connections = {}
          /\ FreeConnectors # {}
          /\ pool' = [pool EXCEPT ![obj[t]].connections = {FreshConnector}]
          /\ cdisc' = [cdisc EXCEPT ![FreshConnector] = 0]
          /\ Done(t, Returned(t, op[t], FreshConnector))
       \/ /\ Done(t, Raised(t, op[t], "PoolError"))
          /\ UNCHANGED <<pool, cdisc>>
    /\ UNCHANGED <<registryVars, poolVars, pools, mlock, rest, configs, rlock, tst, nCalls>>

\* ----------------------------------------------- close_pool, unregister
\* the body of "async with self._lock" in
\* DataSourceRegistry.unregister_data_source (no connector is stored)
UnregisterUnderLock(t, o) ==
    /\ UNCHANGED rlock
    /\ IF Registered(o.id)
       THEN /\ configs' = [configs EXCEPT ![o.id] = NotStored]
            /\ Done(t, Returned(t, o, 0))
       ELSE /\ UNCHANGED configs
            /\ Done(t, Raised(t, o, "RegistryError"))

\* faulty variant of Forget: the catalog keeps the entry
ForgetNothing(id) == pools

\* del self._pools[data_source_id]
Forget(id) == [pools EXCEPT ![id] = NoPool]

\* close_pool returns; PooledDataSourceRegistry.unregister_data_source goes
\* on with super().unregister_data_source
AfterClosePool(t, o) ==
    IF o.name = "close_pool"
    THEN /\ Done(t, Returned(t, o, 0))
         /\ UNCHANGED <<configs, rlock>>
    ELSE IF RFree
         THEN UnregisterUnderLock(t, o)
         ELSE /\ Suspend(t, o, "un_lock", NoPool)
              /\ UNCHANGED <<configs, rlock>>

\* the body of "async with self._lock" in close_pool: await pool.close()
\* (which sets _closed and suspends) for a known id, nothing otherwise
ClosePoolUnderLock(t, o) ==
    IF PoolKnown(o.id)
    THEN /\ pool' = [pool EXCEPT ![pools[o.id]].closed = TRUE]
         /\ mlock' = {t}
         /\ Suspend(t, o, "cp_close", pools[o.id])
         /\ UNCHANGED <<pools, cdisc, rest, configs, rlock>>
    ELSE /\ UNCHANGED <<pools, pool, cdisc, rest>>
         /\ mlock' = {}
         /\ AfterClosePool(t, o)

EnterClosePool(t, o) ==
    IF MFree
    THEN ClosePoolUnderLock(t, o)
    ELSE /\ Suspend(t, o, "cp_lock", NoPool)
         /\ UNCHANGED <<pools, pool, mlock, cdisc, rest, configs, rlock>>

\* ConnectionPoolManager.close_pool(data_source_id)
ClosePool(t) ==
    /\ Call(t)
    /\ \E id \in Ids :
         EnterClosePool(t, [name |-> "close_pool", id |-> id,
                            config |-> "none", test |-> FALSE])
    /\ UNCHANGED <<registryVars, poolVars, tst>>

\* PooledDataSourceRegistry.unregister_data_source(data_source_id):
\* close_pool(id) first
Unregister(t) ==
    /\ Call(t)
    /\ \E id \in Ids :
         EnterClosePool(t, [name |-> "unregister", id |-> id,
                            config |-> "none", test |-> FALSE])
    /\ UNCHANGED <<registryVars, poolVars, tst>>

\* the manager's lock a close_pool waited for is free
ClosePoolLocked(t) ==
    /\ cpc[t] = "cp_lock"
    /\ MFree
    /\ ClosePoolUnderLock(t, op[t])
    /\ UNCHANGED <<registryVars, poolVars, tst, nCalls>>

\* pool.close() returns: its connectors were disconnected and its live set
\* cleared; del self._pools[id]; leave the lock
ClosePoolClosed(t) ==
    /\ cpc[t] = "cp_close"
    /\ pool' = [pool EXCEPT ![obj[t]].connections = {}]
    /\ cdisc' = DisconnectedAll(pool[obj[t]].connections)
    /\ pools' = Forget(op[t].id)
    /\ mlock' = {}
    /\ AfterClosePool(t, op[t])
    /\ UNCHANGED <<registryVars, poolVars, rest, tst, nCalls>>

\* the registry's lock an unregister waited for is free
UnregisterLocked(t) ==
    /\ cpc[t] = "un_lock"
    /\ RFree
    /\ UnregisterUnderLock(t, op[t])
    /\ UNCHANGED <<registryVars, poolVars, pools, pool, mlock, cdisc, rest, tst, nCalls>>

\* ----------------------------------------------- close_all, disconnect_all
\* close_all returns; PooledDataSourceRegistry.disconnect_all goes on with
\* super().disconnect_all(), whose loop over _connectors finds nothing
AfterCloseAll(t, o) ==
    /\ UNCHANGED <<configs, rlock>>
    /\ IF o.name = "close_all" \/ RFree
       THEN Done(t, Returned(t, o, Cardinality(WithConnector)))
       ELSE Suspend(t, o, "da_lock", NoPool)

\* faulty variant of LeftToClose: the loop ends after its first item
NothingLeft(S) == {}

\* the items of self._pools the loop of close_all has still to visit
LeftToClose(S) == S

\* the body of "async with self._lock" in close_all: await pool.close() for
\* the first item, or, with no item, clear and leave
CloseAllUnderLock(t, o) ==
    IF Catalogued = {}
    THEN /\ UNCHANGED <<pools, pool, cdisc, rest>>
         /\ mlock' = {}
         /\ AfterCloseAll(t, o)
    ELSE /\ \E i \in Catalogued :
              /\ pool' = [pool EXCEPT ![pools[i]].closed = TRUE]
              /\ rest' = [rest EXCEPT ![t] = LeftToClose(Catalogued \ {i})]
              /\ Suspend(t, o, "ca_close", pools[i])
         /\ mlock' = {t}
         /\ UNCHANGED <<pools, cdisc, configs, rlock>>

EnterCloseAll(t, o) ==
    IF MFree
    THEN CloseAllUnderLock(t, o)
    ELSE /\ Suspend(t, o, "ca_lock", NoPool)
         /\ UNCHANGED <<pools, pool, mlock, cdisc, rest, configs, rlock>>

\* ConnectionPoolManager.close_all()
CloseAll(t) ==
    /\ Call(t)
    /\ EnterCloseAll(t, [name |-> "close_all", id |-> NoId,
                         config |-> "none", test |-> FALSE])
    /\ UNCHANGED <<registryVars, poolVars, tst>>

\* PooledDataSourceRegistry.disconnect_all(): close_all() first
DisconnectAll(t) ==
    /\ Call(t)
    /\ EnterCloseAll(t, [name |-> "disconnect_all", id |-> NoId,
                         config |-> "none", test |-> FALSE])
    /\ UNCHANGED <<registryVars, poolVars, tst>>

\* the manager's lock a close_all waited for is free
CloseAllLocked(t) ==
    /\ cpc[t] = "ca_lock"
    /\ MFree
    /\ CloseAllUnderLock(t, op[t])
    /\ UNCHANGED <<registryVars, poolVars, tst, nCalls>>

\* a pool.close() of close_all returns (a failing disconnect inside it was
\* logged by the pool): await the next item's close(), or after the last
\* one self._pools.clear() and leave the lock
CloseAllClosed(t) ==
    /\ cpc[t] = "ca_close"
    /\ cdisc' = DisconnectedAll(pool[obj[t]].connections)
    /\ IF rest[t] # {}
       THEN /\ \E i \in rest[t] :
                 /\ pool' = [pool EXCEPT ![obj[t]].connections = {},
                                         ![pools[i]].closed = TRUE]
                 /\ rest' = [rest EXCEPT ![t] = @ \ {i}]
                 /\ Suspend(t, op[t], "ca_close", pools[i])
            /\ UNCHANGED <<pools, mlock, configs, rlock>>
       ELSE /\ pool' = [pool EXCEPT ![obj[t]].connections = {}]
            /\ pools' = [i \in Ids |-> NoPool]
            /\ mlock' = {}
            /\ UNCHANGED rest
            /\ AfterCloseAll(t, op[t])
    /\ UNCHANGED <<registryVars, poolVars, tst, nCalls>>

\* the registry's lock a disconnect_all waited for is free
DisconnectAllLocked(t) ==
    /\ cpc[t] = "da_lock"
    /\ RFree
    /\ Done(t, Returned(t, op[t], Cardinality(WithConnector)))
    /\ UNCHANGED <<registryVars, poolVars, pools, pool, mlock, cdisc, rest, configs, rlock,
                   tst, nCalls>>

\* ------------------------------------------------- register_data_source
\* the outcomes of connector.test_connection()
TestOutcomes == {"true", "false", "raises"}

\* success = await connector.test_connection(), no exception and success
TestPassed(outcome) == outcome = "true"

\* the body of "async with self._lock" in register_data_source (the
\* connector class of the config's type is registered): RegistryError for a
\* known id; with test_connection, create a connector and await its test;
\* else store the configuration
RegisterUnderLock(t, o) ==
    IF Registered(o.id)
    THEN /\ Done(t, Raised(t, o, "RegistryError"))
         /\ UNCHANGED <<configs, rlock, tst, cdisc>>
    ELSE IF o.test
         THEN /\ FreeConnectors # {}
              /\ tst' = [tst EXCEPT ![t] = FreshConnector]
              /\ cdisc' = [cdisc EXCEPT ![FreshConnector] = 0]
              /\ rlock' = {t}
              /\ Suspend(t, o, "rg_test", NoPool)
              /\ UNCHANGED configs
         ELSE /\ configs' = [configs EXCEPT ![o.id] = _encrypt_config(o.config)]
              /\ rlock' = {}
              /\ Done(t, Returned(t, o, o.id))
              /\ UNCHANGED <<tst, cdisc>>

\* DataSourceRegistry.register_data_source(config, test_connection)
Register(t) ==
    /\ Call(t)
    /\ \E id \in Ids, c \in DataSourceConfigs, test \in BOOLEAN :
         LET o == [name |-> "register", id |-> id, config |-> c,
                   test |-> test]
         IN  IF RFree
             THEN RegisterUnderLock(t, o)
             ELSE /\ Suspend(t, o, "rg_lock", NoPool)
                  /\ UNCHANGED <<configs, rlock, tst, cdisc>>
    /\ UNCHANGED <<registryVars, poolVars, pools, pool, mlock, rest>>

\* the registry's lock a register_data_source waited for is free
RegisterLocked(t) ==
    /\ cpc[t] = "rg_lock"
    /\ RFree
    /\ RegisterUnderLock(t, op[t])
    /\ UNCHANGED <<registryVars, poolVars, pools, pool, mlock, rest, nCalls>>

\* test_connection() returns or raises; finally: await connector.disconnect()
RegisterTested(t) ==
    /\ cpc[t] = "rg_test"
    /\ \E outcome \in TestOutcomes :
         cpc' = [cpc EXCEPT ![t] =
                    IF TestPassed(outcome) THEN "rg_store" ELSE "rg_fail"]
    /\ cdisc' = [cdisc EXCEPT ![tst[t]] = @ + 1]
    /\ ret' = NoRet
    /\ UNCHANGED <<registryVars, poolVars, pools, pool, mlock, rest, configs, rlock, op, obj,
                   tst, nCalls>>

\* faulty variant of StoreConfiguration: stored after a failed test too
StoreRegardless(l, id, c) == [configs EXCEPT ![id] = _encrypt_config(c)]

\* self._configs[config.id] = encrypted_config, which a raise in the test
\* block (label rg_fail) skips
StoreConfiguration(l, id, c) ==
    IF l = "rg_store" THEN [configs EXCEPT ![id] = _encrypt_config(c)]
    ELSE configs

\* the disconnect() of the finally clause returns: ConnectionError after a
\* failed test, else the configuration is stored; leave the lock
RegisterDisconnected(t) ==
    /\ cpc[t] \in {"rg_store", "rg_fail"}
    /\ tst' = [tst EXCEPT ![t] = NoConnector]
    /\ rlock' = {}
    /\ configs' = StoreConfiguration(cpc[t], op[t].id, op[t].config)
    /\ IF cpc[t] = "rg_store"
       THEN Done(t, Returned(t, op[t], op[t].id))
       ELSE Done(t, Raised(t, op[t], "ConnectionError"))
    /\ UNCHANGED <<registryVars, poolVars, pools, pool, mlock, cdisc, rest, nCalls>>

\* ----------------------------------------------------------- catalog spec
NextCatalog ==
    \E t \in Callers :
       \/ GetPool(t)
       \/ GetConnector(t)
       \/ GetPoolLocked(t)
       \/ GetPoolInitialized(t)
       \/ ConnectorAcquired(t)
       \/ ClosePool(t)
       \/ Unregister(t)
       \/ ClosePoolLocked(t)
       \/ ClosePoolClosed(t)
       \/ UnregisterLocked(t)
       \/ CloseAll(t)
       \/ DisconnectAll(t)
       \/ CloseAllLocked(t)
       \/ CloseAllClosed(t)
       \/ DisconnectAllLocked(t)
       \/ Register(t)
       \/ RegisterLocked(t)
       \/ RegisterTested(t)
       \/ RegisterDisconnected(t)

\* a manager and a registry in which some data sources are registered; the
\* detailed pool of the first part is constructed and never used
InitCatalog ==
    /\ PoolCreated
    /\ cfg = [max_size |-> 1, min_size |-> 0]
    /\ \E cs \in SUBSET Ids : CatalogWith(cs)

SpecCatalog == InitCatalog /\ [][NextCatalog]_vars

TypeOKCatalog ==
    /\ pools \in [Ids -> PoolObjs \cup {NoPool}]
    /\ configs \in [Ids -> {NotStored} \cup
                           {_encrypt_config(c) : c \in DataSourceConfigs}]
    /\ mlock \subseteq Callers
    /\ rlock \subseteq Callers
    /\ Cardinality(mlock) <= 1
    /\ Cardinality(rlock) <= 1
    /\ \A p \in PoolObjs : pool[p].connections \subseteq Connectors

\* ============================================ the registry without pools
\* DataSourceRegistry itself: get_connector keeps one connector per id in
\* _connectors, and unregister_data_source and disconnect_all disconnect
\* what is stored. register_data_source is the one modelled above. Every
\* method runs under the registry's lock, held across its awaits.

\* the outcomes of connector.connect(): it returns True or raises
ConnectOutcomes == {"connected", "raises"}

\* faulty variant of is_connected: the connection is never seen
never_connected(c) == FALSE

\* DataSourceConnector.is_connected(): self._connection is not None
is_connected(c) == c \in connected

\* the body of "async with self._lock" in DataSourceRegistry.get_connector:
\* RegistryError for an unknown id; the stored connector, after awaiting
\* connect() if it is not connected; else a new connector and await connect()
BaseGetConnectorUnderLock(t, o) ==
    IF ~Registered(o.id)
    THEN /\ Done(t, Raised(t, o, "RegistryError"))
         /\ rlock' = {}
         /\ UNCHANGED <<tst, cdisc>>
    ELSE IF _connectors[o.id] # NoConnector
         THEN /\ IF is_connected(_connectors[o.id])
                 THEN /\ Done(t, Returned(t, o, _connectors[o.id]))
                      /\ rlock' = {}
                 ELSE /\ Suspend(t, o, "bg_reconnect", NoPool)
                      /\ rlock' = {t}
              /\ UNCHANGED <<tst, cdisc>>
         ELSE /\ FreeConnectors # {}
              /\ tst' = [tst EXCEPT ![t] = FreshConnector]
              /\ cdisc' = [cdisc EXCEPT ![FreshConnector] = 0]
              /\ rlock' = {t}
              /\ Suspend(t, o, "bg_connect", NoPool)

\* DataSourceRegistry.get_connector(data_source_id)
BaseGetConnector(t) ==
    /\ Call(t)
    /\ \E id \in Ids :
         LET o == [name |-> "get_connector", id |-> id, config |-> "none",
                   test |-> FALSE]
         IN  IF RFree
             THEN BaseGetConnectorUnderLock(t, o)
             ELSE /\ Suspend(t, o, "bg_lock", NoPool)
                  /\ UNCHANGED <<rlock, tst, cdisc>>
    /\ UNCHANGED <<poolVars, registryVars, pools, pool, mlock, rest, configs>>

\* the registry's lock a get_connector waited for is free
BaseGetConnectorLocked(t) ==
    /\ cpc[t] = "bg_lock"
    /\ RFree
    /\ BaseGetConnectorUnderLock(t, op[t])
    /\ UNCHANGED <<poolVars, registryVars, pools, pool, mlock, rest, configs,
                   nCalls>>

\* connect() of a new connector returns: store the connector and return it;
\* or raises: ConnectionError, and the connector is dropped
BaseConnected(t) ==
    /\ cpc[t] = "bg_connect"
    /\ \E outcome \in ConnectOutcomes :
         IF outcome = "connected"
         THEN /\ _connectors' = [_connectors EXCEPT ![op[t].id] = tst[t]]
              /\ connected' = connected \cup {tst[t]}
              /\ Done(t, Returned(t, op[t], tst[t]))
         ELSE /\ UNCHANGED <<_connectors, connected>>
              /\ Done(t, Raised(t, op[t], "ConnectionError"))
    /\ tst' = [tst EXCEPT ![t] = NoConnector]
    /\ rlock' = {}
    /\ UNCHANGED <<poolVars, pools, pool, mlock, rest, configs, cdisc, nCalls>>

\* connect() of the stored connector returns: return the connector; or
\* raises: the connector's error reaches the caller, the connector stays
BaseReconnected(t) ==
    /\ cpc[t] = "bg_reconnect"
    /\ \E outcome \in ConnectOutcomes :
         IF outcome = "connected"
         THEN /\ connected' = connected \cup {_connectors[op[t].id]}
              /\ Done(t, Returned(t, op[t], _connectors[op[t].id]))
         ELSE /\ UNCHANGED connected
              /\ Done(t, Raised(t, op[t], "ConnectionError"))
    /\ rlock' = {}
    /\ UNCHANGED <<poolVars, pools, pool, mlock, rest, configs, cdisc, tst,
                   nCalls, _connectors>>

\* a holder of the connector calls its disconnect(), or the connection is lost
ConnectorDisconnected(c) ==
    /\ is_connected(c)
    /\ connected' = connected \ {c}
    /\ cdisc' = [cdisc EXCEPT ![c] = @ + 1]
    /\ ret' = NoRet
    /\ UNCHANGED <<poolVars, pools, pool, mlock, rest, configs, rlock, cpc, op,
                   obj, tst, nCalls, _connectors>>

\* the body of "async with self._lock" in
\* DataSourceRegistry.unregister_data_source: RegistryError for an unknown
\* id; await disconnect() of a stored connector; delete the configuration
BaseUnregisterUnderLock(t, o) ==
    IF ~Registered(o.id)
    THEN /\ Done(t, Raised(t, o, "RegistryError"))
         /\ rlock' = {}
         /\ UNCHANGED <<configs, cdisc, connected>>
    ELSE IF _connectors[o.id] # NoConnector
         THEN /\ cdisc' = [cdisc EXCEPT ![_connectors[o.id]] = @ + 1]
              /\ connected' = connected \ {_connectors[o.id]}
              /\ rlock' = {t}
              /\ Suspend(t, o, "bu_disc", NoPool)
              /\ UNCHANGED configs
         ELSE /\ configs' = [configs EXCEPT ![o.id] = NotStored]
              /\ rlock' = {}
              /\ Done(t, Returned(t, o, 0))
              /\ UNCHANGED <<cdisc, connected>>

\* DataSourceRegistry.unregister_data_source(data_source_id)
BaseUnregister(t) ==
    /\ Call(t)
    /\ \E id \in Ids :
         LET o == [name |-> "unregister", id |-> id, config |-> "none",
                   test |-> FALSE]
         IN  IF RFree
             THEN BaseUnregisterUnderLock(t, o)
             ELSE /\ Suspend(t, o, "bu_lock", NoPool)
                  /\ UNCHANGED <<configs, rlock, cdisc, connected>>
    /\ UNCHANGED <<poolVars, pools, pool, mlock, rest, tst, _connectors>>

\* the registry's lock an unregister_data_source waited for is free
BaseUnregisterLocked(t) ==
    /\ cpc[t] = "bu_lock"
    /\ RFree
    /\ BaseUnregisterUnderLock(t, op[t])
    /\ UNCHANGED <<poolVars, pools, pool, mlock, rest, tst, nCalls,
                   _connectors>>

\* the disconnect() of unregister_data_source returns: delete the connector
\* and the configuration, leave the lock
BaseUnregisterDisconnected(t) ==
    /\ cpc[t] = "bu_disc"
    /\ _connectors' = [_connectors EXCEPT ![op[t].id] = NoConnector]
    /\ configs' = [configs EXCEPT ![op[t].id] = NotStored]
    /\ rlock' = {}
    /\ Done(t, Returned(t, op[t], 0))
    /\ UNCHANGED <<poolVars, pools, pool, mlock, rest, tst, nCalls, cdisc,
                   connected>>

\* the body of "async with self._lock" in DataSourceRegistry.disconnect_all:
\* await disconnect() of the first stored connector, or, with none stored,
\* clear and leave
BaseDisconnectAllUnderLock(t, o) ==
    IF WithConnector = {}
    THEN /\ rlock' = {}
         /\ Done(t, Returned(t, o, 0))
         /\ UNCHANGED rest
    ELSE /\ rlock' = {t}
         /\ rest' = [rest EXCEPT ![t] = WithConnector]
         /\ Suspend(t, o, "bd_disc", NoPool)

\* DataSourceRegistry.disconnect_all()
BaseDisconnectAll(t) ==
    /\ Call(t)
    /\ LET o == [name |-> "disconnect_all", id |-> NoId, config |-> "none",
                 test |-> FALSE]
       IN  IF RFree
           THEN BaseDisconnectAllUnderLock(t, o)
           ELSE /\ Suspend(t, o, "bd_lock", NoPool)
                /\ UNCHANGED <<rlock, rest>>
    /\ UNCHANGED <<poolVars, registryVars, pools, pool, mlock, configs, cdisc,
                   tst>>

\* the registry's lock a disconnect_all waited for is free
BaseDisconnectAllLocked(t) ==
    /\ cpc[t] = "bd_lock"
    /\ RFree
    /\ BaseDisconnectAllUnderLock(t, op[t])
    /\ UNCHANGED <<poolVars, registryVars, pools, pool, mlock, configs, cdisc,
                   tst, nCalls>>

\* a disconnect() of disconnect_all returns: await the next connector's
\* disconnect(), or after the last one self._connectors.clear() and leave
BaseDisconnectAllDisconnected(t) ==
    /\ cpc[t] = "bd_disc"
    /\ \E i \in rest[t] :
         /\ cdisc' = [cdisc EXCEPT ![_connectors[i]] = @ + 1]
         /\ connected' = connected \ {_connectors[i]}
         /\ rest' = [rest EXCEPT ![t] = @ \ {i}]
         /\ IF rest[t] = {i}
            THEN /\ _connectors' = [j \in Ids |-> NoConnector]
                 /\ rlock' = {}
                 /\ Done(t, Returned(t, op[t], 0))
            ELSE /\ Suspend(t, op[t], "bd_disc", NoPool)
                 /\ UNCHANGED <<_connectors, rlock>>
    /\ UNCHANGED <<poolVars, pools, pool, mlock, configs, tst, nCalls>>

NextRegistry ==
    \/ \E t \in Callers :
          \/ BaseGetConnector(t)
          \/ BaseGetConnectorLocked(t)
          \/ BaseConnected(t)
          \/ BaseReconnected(t)
          \/ BaseUnregister(t)
          \/ BaseUnregisterLocked(t)
          \/ BaseUnregisterDisconnected(t)
          \/ BaseDisconnectAll(t)
          \/ BaseDisconnectAllLocked(t)
          \/ BaseDisconnectAllDisconnected(t)
          \/ Register(t)
          \/ RegisterLocked(t)
          \/ RegisterTested(t)
          \/ RegisterDisconnected(t)
    \/ \E c \in Connectors : ConnectorDisconnected(c)

SpecRegistry == InitCatalog /\ [][NextRegistry]_vars

TypeOKRegistry ==
    /\ _connectors \in [Ids -> Connectors \cup {NoConnector}]
    /\ connected \subseteq {_connectors[i] : i \in Ids} \ {NoConnector}
    /\ Cardinality(rlock) <= 1
    /\ \A c \in Connectors : cdisc[c] \in 0..(MaxCalls + 1)

\* ================================================================ claims
\* no call of a borrower, of initialize() or of the sweep is under way
Quiet ==
    /\ \A t \in Borrowers : pc[t] = "idle"
    /\ ipc = "done"
    /\ spc \in {"s_sleep", "done"}
    /\ Free

\* every connector acquire has returned to a borrower and not yet got back
Borrowed == UNION {held[t] : t \in Borrowers}

\* the connectors borrower t owns: those it holds and the one it is releasing
Owned(t) ==
    held[t] \cup (IF pc[t] \in {"r_lock", "r_test", "r_disc", "r_closed"}
                  THEN {conn[t]} ELSE {})

\* the pool state a failed acquire must leave alone
poolState == <<connections, available, in_use, use_count, closed>>

CloseCompleted == closed /\ \A t \in Borrowers : pc[t] \notin {"c_await", "c_lock", "c_disc"}

\* ------------------------------------------------------------------- C1
\* C1: the number of live handles never exceeds max_size, whatever the
\* interleaving of acquire, release, sweep and close.
C1_SizeWithinMax == size <= cfg.max_size

\* the pool is full, one acquire waits for a handle and another, which also
\* found the queue empty, waits for the lock
C1_Witness ==
    /\ size = cfg.max_size
    /\ available = <<>>
    /\ \E t, u \in Borrowers : pc[t] = "a_waitq" /\ pc[u] = "a_lock"

\* ------------------------------------------------------------------- C2
\* C2: available_count() + in_use_count() = size(), every live handle is in
\* the queue exactly once or in use, and the queue holds live handles only
\* (stated where no call is under way on an open pool, which "at all times"
\* includes).
C2_Accounting ==
    (Quiet /\ ~closed) =>
        /\ available_count + in_use_count = size
        /\ Range(available) \subseteq connections
        /\ \A h \in connections :
             in_use[h] <=> Cardinality({i \in 1..Len(available) : available[i] = h}) # 1

\* no call is under way on an open pool whose live set is empty, yet the
\* queue still holds the handle the sweep evicted
C2_Witness ==
    /\ Quiet
    /\ ~closed
    /\ connections = {}
    /\ available # <<>>
    /\ \A h \in Range(available) : disc[h] = 1

\* ------------------------------------------------------------------- C3
\* C3: acquire never returns a connector the pool has already disconnected
\* or removed from its live set (stated for an open pool).
C3_NeverReturnsRemoved ==
    [][\A t \in Borrowers : \A h \in held'[t] \ held[t] :
          ~closed => (h \in connections /\ disc[h] = 0)]_vars

\* a borrower holds a connector that was handed out a second time after the
\* sweep had disconnected it and dropped it from the live set
C3_Witness ==
    /\ ~closed
    /\ spc = "s_sleep"
    /\ \E t \in Borrowers : \E h \in held[t] :
         h \notin connections /\ disc[h] = 1 /\ use_count[h] >= 2

\* ------------------------------------------------------------------- C4
\* C4: no connector is owned by two borrowers at once, and a connector a
\* borrower owns is not in the queue for another acquire to take.
C4_OneBorrower ==
    /\ \A t, u \in Borrowers : t # u => Owned(t) \cap Owned(u) = {}
    /\ \A t \in Borrowers : Owned(t) \cap Range(available) = {}
    /\ \A t, u \in Borrowers :
         (t # u /\ pc[u] = "a_got") => conn[u] \notin Owned(t)

\* both borrowers hold a connector, one of them a connector that was
\* borrowed before, given back and handed out again
C4_Witness ==
    /\ held[1] # {}
    /\ held[2] # {}
    /\ \E h \in held[2] : use_count[h] >= 2

\* ------------------------------------------------------------------- C5
\* C5: with an acquire waiting at capacity, a release completes without
\* waiting for the waiter's timeout: the release never stands before a lock
\* that the waiting acquire holds.
C5_ReleaseNotBlockedByWaiter ==
    \A t, w \in Borrowers :
        ~(pc[t] = "r_lock" /\ pc[w] = "a_waitq" /\ lock = {w} /\ ~closed)

\* the waiter has timed out and left the lock while the release of the
\* connector it waited for still stands before the lock
C5_Witness ==
    /\ ~closed
    /\ raised = "timeout"
    /\ Free
    /\ \E t \in Borrowers :
         pc[t] = "r_lock" /\ conn[t] \in connections /\ in_use[conn[t]]

\* ------------------------------------------------------------------- C6
\* C6: the number of connectors borrowers hold at once never exceeds
\* max_size (stated for an open pool).
C6_BorrowedWithinMax == ~closed => Cardinality(Borrowed) <= cfg.max_size

\* more connectors are borrowed than max_size allows, one of them handed
\* out again after its eviction
C6_Witness ==
    /\ ~closed
    /\ Cardinality(Borrowed) > cfg.max_size
    /\ \E h \in Borrowed : use_count[h] >= 2 /\ disc[h] = 1

\* ------------------------------------------------------------------- C7
\* C7: an acquire that waits at capacity and times out changes nothing but
\* its caller: no step of the call on its way to the wait, nor the timeout,
\* changes the live set, the queue, an in_use flag or a use_count; a timed
\* out caller does not keep the lock, and the lock is free after a wait on
\* the queue has timed out.
C7_TimeoutLeavesPool ==
    [][\A t \in Borrowers :
          /\ (pc'[t] # pc[t] /\ pc'[t] \in {"a_begin", "a_lock", "a_waitq"})
                => UNCHANGED poolState
          /\ (pc'[t] # pc[t] /\ pc'[t] = "a_waitq")
                => (size >= cfg.max_size /\ available = <<>>)
          /\ (pc[t] \in {"a_lock", "a_connect", "a_waitq"} /\ pc'[t] = "idle"
              /\ raised' = "timeout")
                => (UNCHANGED poolState /\ lock' # {t})
          /\ (pc[t] = "a_waitq" /\ pc'[t] = "idle" /\ raised' = "timeout")
                => lock' = {}]_vars

\* a wait on the queue has just timed out: the pool is still full with
\* every handle borrowed, and the lock is free
C7_Witness ==
    /\ raised = "timeout"
    /\ size = cfg.max_size
    /\ \A h \in connections : in_use[h] /\ h \in Borrowed
    /\ Free
    /\ \A t \in Borrowers : pc[t] = "idle"

\* ------------------------------------------------------------------- C8
\* C8: close() called while an acquire waits at capacity returns without the
\* waiter's timeout firing: close never stands before a lock that the
\* waiting acquire holds.
C8_CloseNotBlockedByWaiter ==
    \A t, w \in Borrowers :
        ~(pc[t] = "c_lock" /\ pc[w] = "a_waitq" /\ lock = {w})

\* the waiter has timed out and left the lock while close() still stands
\* before the lock
C8_Witness ==
    /\ raised = "timeout"
    /\ Free
    /\ ipc = "done"
    /\ spc = "done"
    /\ size = cfg.max_size
    /\ \A h \in connections : in_use[h]
    /\ \E t \in Borrowers : pc[t] = "c_lock"

\* ------------------------------------------------------------------- C9
\* C9: acquire called on a pool whose close() has completed raises the
\* pool-closed error at once, calls no factory and changes nothing.
C9_ClosedAcquireFails ==
    [][\A t \in Borrowers :
          (CloseCompleted /\ AcquireStart(t))
              => /\ raised' = "closed"
                 /\ made' = FALSE
                 /\ pc'[t] = "idle"
                 /\ UNCHANGED <<poolState, lock, disc, expired, idle_long>>]_vars

\* an acquire has just failed on a pool that close() has emptied
C9_Witness ==
    /\ CloseCompleted
    /\ raised = "closed"
    /\ connections = {}
    /\ \A t \in Borrowers : pc[t] = "idle"

\* ------------------------------------------------------------------ C10
\* C10: a release whose health check fails or raises, or whose connector
\* has outlived max_lifetime, invokes that connector's disconnect exactly
\* once, removes its handle from the live set, so that size() drops by
\* exactly one, does not queue the handle, and returns normally.
C10_ReleaseRemoves ==
    [][\A t \in Borrowers :
          /\ (pc[t] = "r_test" /\ pc'[t] = "r_disc")
                => /\ disc' = [disc EXCEPT ![conn[t]] = @ + 1]
                   /\ conn[t] \in connections
                   /\ UNCHANGED <<connections, available>>
          /\ (pc[t] = "r_test" /\ pc'[t] = "idle")
                => /\ conn[t] \notin expired'
                   /\ UNCHANGED <<connections, disc>>
          /\ (pc[t] = "r_disc" /\ pc'[t] = "r_disc")
                => (disc'[conn[t]] = disc[conn[t]] /\ UNCHANGED connections)
          /\ (pc[t] = "r_disc" /\ pc'[t] # "r_disc")
                => /\ pc'[t] = "idle"
                   /\ raised' = "none"
                   /\ conn[t] \in connections
                   /\ connections' = connections \ {conn[t]}
                   /\ Cardinality(connections') = size - 1
                   /\ conn[t] \notin Range(available')]_vars

\* a release found its connector healthy but past max_lifetime: disconnect
\* has been invoked once and the handle is about to leave the live set
C10_Witness ==
    \E t \in Borrowers :
        /\ pc[t] = "r_disc"
        /\ conn[t] \in expired
        /\ conn[t] \in connections
        /\ disc[conn[t]] = 1
        /\ use_count[conn[t]] >= 2

C12_ReleaseReturnsHandle ==
    [][\A t \in Borrowers :
          (pc[t] = "r_test" /\ pc'[t] = "idle")
              => /\ conn[t] \in connections
                 /\ in_use[conn[t]]
                 /\ ~in_use'[conn[t]]
                 /\ \A h \in Handles \ {conn[t]} : in_use'[h] = in_use[h]
                 /\ available' = Append(available, conn[t])
                 /\ UNCHANGED <<connections, disc, use_count>>
                 /\ in_use_count' = in_use_count - 1
                 /\ available_count' = available_count + 1
                 /\ size' = size
                 /\ lock' = {}
                 /\ raised' = "none"]_vars

\* a connector that was borrowed is back in the queue, not in use, while
\* the other borrower still holds its connector
C12_Witness ==
    /\ ~closed
    /\ \A t \in Borrowers : pc[t] = "idle"
    /\ size = 2
    /\ in_use_count = 1
    /\ available_count = 1
    /\ \E h \in Range(available) :
         h \in connections /\ ~in_use[h] /\ use_count[h] >= 1 /\ disc[h] = 0
    /\ held[1] = {}
    /\ held[2] # {}

\* ------------------------------------------------------------------ C13
\* the step with which a close() call of t that found the pool open returns
CloseReturns(t) ==
    \/ pc[t] \in {"c_await", "c_lock", "c_disc"} /\ pc'[t] = "idle"
    \/ pc[t] = "idle" /\ pc' = pc /\ ~closed /\ closed'

\* C13: when close() returns the pool is closed, the live set and the queue
\* are empty and disconnect has been invoked on every handle that was live
\* when close began, borrowed or not: a handle leaves the live set only
\* after its disconnect was invoked, close's loop passes over every live
\* handle whether its disconnect returns or raises, and close raises
\* nothing.
C13_CloseDisconnectsAll ==
    [][/\ \A h \in connections \ connections' : disc[h] >= 1
       /\ \A t \in Borrowers :
            /\ pc'[t] = "c_disc"
                 => /\ closed'
                    /\ todo' \subseteq connections'
                    /\ \A h \in connections' \ todo' : disc'[h] >= 1
                    /\ connections' = connections
            /\ CloseReturns(t)
                 => /\ closed'
                    /\ connections' = {}
                    /\ available' = <<>>
                    /\ size' = 0
                    /\ available_count' = 0
                    /\ \A h \in connections : disc[h] >= 1
                    /\ raised' = "none"]_vars

\* close() has returned on a pool whose only handle was borrowed: the pool
\* is empty and the borrowed connector has been disconnected
C13_Witness ==
    /\ CloseCompleted
    /\ spc = "done"
    /\ ipc = "done"
    /\ nAcq = 1
    /\ connections = {}
    /\ available = <<>>
    /\ \A t \in Borrowers : pc[t] = "idle"
    /\ \E h \in held[1] : disc[h] = 1 /\ in_use[h]

\* ------------------------------------------------------------------ C14
\* C14: a close() call on a pool that is already closed changes no pool
\* state, starts nothing and invokes no disconnect.
C14_SecondCloseNoOp ==
    [][\A t \in Borrowers :
          (closed /\ CloseStart(t))
              => /\ UNCHANGED <<connections, available, lock, closed, in_use,
                               use_count, disc, pc, conn, held, todo, spc,
                               to_remove, cancelled, ipc, iconn>>
                 /\ made' = FALSE
                 /\ raised' = "none"]_vars

\* close() has completed and an acquire has since failed on the closed pool:
\* a further close() finds it closed, with a borrowed connector outstanding
C14_Witness ==
    /\ CloseCompleted
    /\ raised = "closed"
    /\ spc = "done"
    /\ connections = {}
    /\ available = <<>>
    /\ \A t \in Borrowers : pc[t] = "idle"
    /\ held[2] # {}
    /\ ENABLED CloseStart(1)

\* ------------------------------------------------------------------ C15
\* C15: the pool invokes disconnect at most once on each connector.
C15_DisconnectAtMostOnce == \A h \in Handles : disc[h] <= 1

\* close() has completed, having disconnected a connector that was borrowed;
\* the borrower has now released it and disconnect was invoked again
C15_Witness ==
    /\ CloseCompleted
    /\ spc = "done"
    /\ cancelled = FALSE
    /\ connections = {}
    /\ \E t \in Borrowers : pc[t] = "r_closed" /\ disc[conn[t]] = 2

\* ------------------------------------------------------------------ C16
\* C16: a sweep pass never takes the live count below min_size: a pass that
\* starts with size() <= min_size selects nothing, a pass selects distinct
\* live handles and at most size() - min_size of them, while it removes
\* them nothing else changes the live set, and each removal takes out one
\* selected handle; so a pass that starts at or above min_size ends there.
C16_SweepKeepsFloor ==
    [][/\ SweepScan
          => /\ UNCHANGED connections
             /\ size <= cfg.min_size => to_remove' = <<>>
             /\ size >= cfg.min_size => size - Len(to_remove') >= cfg.min_size
             /\ Range(to_remove') \subseteq connections
             /\ Cardinality(Range(to_remove')) = Len(to_remove')
       /\ spc = "s_remove"
          => /\ size - Len(to_remove) >= cfg.min_size
             /\ \/ UNCHANGED <<connections, to_remove>>
                \/ /\ connections' = connections \ {Head(to_remove)}
                   /\ to_remove' = Tail(to_remove)
                   /\ Cardinality(connections') >= cfg.min_size
                \/ /\ cancelled
                   /\ spc' = "done"
                   /\ UNCHANGED connections]_vars

\* a pass over two unused handles, both expired, with min_size = 1: one is
\* being removed, the other is kept for the floor
C16_Witness ==
    /\ spc = "s_remove"
    /\ cfg.min_size = 1
    /\ size = 2
    /\ Len(to_remove) = 1
    /\ \A h \in connections : ~in_use[h] /\ h \in expired

\* ------------------------------------------------------------------ C17
\* C17: no handle that is in use during a sweep pass is among the handles
\* the pass selected for eviction, so the sweep never disconnects or removes
\* a handle a borrower holds.
C17_SweepSparesBorrowed ==
    spc = "s_remove" => \A h \in Range(to_remove) : ~in_use[h]

\* an open pool in which a borrower holds, as in use, a handle it took from
\* the queue on its second use and that a completed sweep pass disconnected
\* and removed from the live set
C17_Witness ==
    /\ ~closed
    /\ spc = "s_sleep"
    /\ ipc = "done"
    /\ \A t \in Borrowers : pc[t] = "idle"
    /\ \E t \in Borrowers : \E h \in held[t] :
          /\ in_use[h]
          /\ h \notin connections
          /\ disc[h] = 1
          /\ use_count[h] = 2

\* ------------------------------------------------------------------ C18
\* the handles a pass may evict: not in use, and expired or idle too long
Eligible ==
    {h \in connections : ~in_use[h] /\ (is_expired(h) \/ is_idle_too_long(h))}

SmallerOf(a, b) == IF a <= b THEN a ELSE b

\* C18: a sweep pass that starts with size() > min_size selects exactly
\* min(E, size() - min_size) handles, E being the number of eligible handles
\* when the pass looks at them, and a pass that runs to its end removes
\* exactly the handles it selected; when no handle is in use and all are
\* eligible, min_size handles remain.
C18_SweepEvictsExactly ==
    [][/\ (SweepScan /\ size > cfg.min_size)
          => /\ Len(to_remove') =
                   SmallerOf(Cardinality(Eligible'), size - cfg.min_size)
             /\ Range(to_remove') \subseteq Eligible'
             /\ Eligible' = connections
                   => size - Len(to_remove') = cfg.min_size
       /\ SweepRemoved
          => /\ size' = size - 1
             /\ Len(to_remove') = Len(to_remove) - 1
             /\ Head(to_remove) \notin connections'
             /\ to_remove' = <<>> <=> spc' = LoopHead]_vars

\* a pass over two handles waiting in the queue, with min_size = 0, selected
\* both, one of them only because it was idle too long
C18_Witness ==
    /\ spc = "s_remove"
    /\ cfg.min_size = 0
    /\ size = 2
    /\ Len(to_remove) = 2
    /\ \E h \in Range(to_remove) : h \notin expired /\ h \in idle_long
    /\ \A t \in Borrowers : pc[t] = "idle" /\ held[t] = {}
    /\ Range(available) = connections

\* ------------------------------------------------------------------ C19
\* C19: initialize() on a fresh pool, with no acquire begun, never raises:
\* while it runs, the live count is the number of attempts that succeeded,
\* and when it completes after k failed attempts size() = available_count()
\* = min_size - k, every live handle waits in the queue and none is in use.
C19_InitializeBestEffort ==
    [][/\ (ipc = "i_connect" /\ nAcq = 0)
          => size + ifailed + iremaining = cfg.min_size
       /\ (InitializeBegin \/ InitializeConnected) => raised' = "none"
       /\ (ipc # "done" /\ ipc' = "done" /\ nAcq = 0)
          => LET k == IF ipc = "i_connect"
                      THEN ifailed + (IF connections' = connections
                                      THEN 1 ELSE 0)
                      ELSE 0
             IN  /\ size' = cfg.min_size - k
                 /\ available_count' = size'
                 /\ Range(available') = connections'
                 /\ \A h \in connections' : ~in_use'[h]
                 /\ raised' = "none"]_vars

\* initialize() has completed on a pool with min_size = 2 and no borrower:
\* one of the two attempts failed and one handle waits in the queue
C19_Witness ==
    /\ ipc = "done"
    /\ spc = "s_new"
    /\ nAcq = 0
    /\ ~closed
    /\ cfg.min_size = 2
    /\ size = 1
    /\ available_count = 1
    /\ raised = "none"

\* ------------------------------------------------------------------ C20
\* C20: the lifecycle only moves forward: a closed pool stays closed, and
\* once close() has completed and no operation is in progress, an operation
\* invoked on the pool (initialize, acquire) calls no factory, adds no
\* handle to the live set or the queue and starts no sweep task.
C20_ClosedIsTerminal ==
    [][/\ closed => closed'
       /\ (/\ CloseCompleted
           /\ \A t \in Borrowers : pc[t] = "idle"
           /\ ipc \in {"created", "done"}
           /\ spc \in {"none", "done"})
          => /\ made' = FALSE
             /\ connections' \subseteq connections
             /\ Range(available') \subseteq Range(available)
             /\ spc' = spc]_vars

\* close() completed on a pool nobody had used, and afterwards initialize()
\* warmed it up: the closed pool has min_size live handles in its queue
C20_Witness ==
    /\ CloseCompleted
    /\ \A t \in Borrowers : pc[t] = "idle"
    /\ nAcq = 0
    /\ ipc = "done"
    /\ cfg.min_size > 0
    /\ size = cfg.min_size
    /\ available_count = size

\* ------------------------------------------------------------------ C21
\* what release does with connector h of borrower t when it ignores it
ReleaseIgnored(t, h) ==
    /\ pc'[t] = "idle"
    /\ held'[t] = held[t] \ {h}
    /\ raised' = "none"
    /\ UNCHANGED <<connections, available, lock, closed, expired, idle_long>>
    /\ \A g \in Handles : disc'[g] <= disc[g]
    /\ \A g \in connections \cup Range(available) :
          /\ in_use'[g] = in_use[g]
          /\ use_count'[g] = use_count[g]
          /\ disc'[g] = disc[g]

\* C21: release of a connector that belongs to no live handle of an open
\* pool is ignored: nothing is raised, the connector is not disconnected,
\* and the live set, the queue and the fields of every handle of the pool
\* stay as they were.
C21_UnknownReleaseIgnored ==
    [][\A t \in Borrowers :
         /\ \A h \in held[t] \ connections :
               (ReleaseStart(t) /\ h \notin held'[t] /\ ~closed /\ Free)
                  => ReleaseIgnored(t, h)
         /\ (ReleaseLocked(t) /\ conn[t] \notin connections)
               => ReleaseIgnored(t, conn[t])]_vars

\* release was called on an open pool with a connector whose handle a sweep
\* had removed; it waited for the lock, which is now free
C21_Witness ==
    /\ ~closed
    /\ Free
    /\ \E t \in Borrowers :
          /\ pc[t] = "r_lock"
          /\ conn[t] \notin connections
          /\ disc[conn[t]] = 1

\* ------------------------------------------------------------------ C22
\* C22: release called on a closed pool invokes the connector's disconnect
\* and touches nothing else: it takes no lock, runs no health check, and
\* leaves the live set, the queue and the handles' flags as they were, from
\* its call to its return.
C22_ClosedReleaseBypasses ==
    [][\A t \in Borrowers :
         /\ \A h \in held[t] :
               (ReleaseStart(t) /\ h \notin held'[t] /\ closed)
                  => /\ pc'[t] = "r_closed"
                     /\ conn'[t] = h
                     /\ disc' = [disc EXCEPT ![h] = @ + 1]
                     /\ raised' = "none"
                     /\ UNCHANGED <<connections, available, lock, in_use,
                                    use_count, expired, idle_long>>
         /\ (pc[t] = "r_closed" /\ pc'[t] # "r_closed")
               => /\ pc'[t] = "idle"
                  /\ raised' = "none"
                  /\ UNCHANGED <<connections, available, lock>>
                  /\ \A g \in connections \cup Range(available) :
                        in_use'[g] = in_use[g] /\ disc'[g] = disc[g]]_vars

\* close() has completed, leaving the pool empty, and a borrower's release
\* of a connector it still held is disconnecting it directly
C22_Witness ==
    /\ CloseCompleted
    /\ connections = {}
    /\ available = <<>>
    /\ Free
    /\ ipc = "done"
    /\ spc = "done"
    /\ \E t \in Borrowers :
          /\ pc[t] = "r_closed"
          /\ disc[conn[t]] >= 1
          /\ in_use[conn[t]]

\* ================================================= claims on the catalog
\* the pool objects constructed for id that have not been closed
OpenPoolsOf(id) ==
    {p \in PoolObjs : pool[p].data_source_id = id /\ ~pool[p].closed}

\* caller t's call of operation name returns or raises in this step
Ends(t, name) == ret'.task = t /\ ret'.call.name = name

\* ------------------------------------------------------------------ C23
\* C23: however get_pool calls interleave, an id has at most one pool that
\* is not closed; a pool is constructed for an id only when the catalog has
\* none for it and is initialized exactly once before it is catalogued; the
\* catalog entry of an id changes only by the registration of that new pool
\* or by a removal; every get_pool call returns the catalog's pool of its
\* id; distinct ids have distinct pools.
C23_OnePoolPerId ==
    [][/\ \A id \in Ids :
            /\ Cardinality(OpenPoolsOf(id)') <= 1
            /\ pools'[id] # NoPool
                  => /\ pool'[pools'[id]].data_source_id = id
                     /\ pool'[pools'[id]].initialized = 1
            /\ (pools[id] # NoPool /\ pools'[id] # NoPool)
                  => pools'[id] = pools[id]
            /\ \A j \in Ids \ {id} :
                  pools'[id] # NoPool => pools'[j] # pools'[id]
       /\ \A p \in PoolObjs :
            /\ pool'[p].initialized <= 1
            /\ (pool[p].data_source_id = NoId /\ pool'[p].data_source_id # NoId)
                  => /\ pools[pool'[p].data_source_id] = NoPool
                     /\ OpenPoolsOf(pool'[p].data_source_id) = {}
       /\ \A t \in Callers :
            Ends(t, "get_pool")
               => /\ ret'.kind = "returned"
                  /\ ret'.value = pools'[ret'.call.id]
                  /\ ret'.value # NoPool]_vars

\* one get_pool call is awaiting the initialize() of the pool it constructed
\* while another get_pool call for the same id waits for the manager's lock
C23_Witness ==
    \E t, u \in Callers :
       /\ cpc[t] = "gp_init"
       /\ cpc[u] = "gp_lock"
       /\ op[t].name = "get_pool"
       /\ op[u].name = "get_pool"
       /\ op[t].id = op[u].id

\* ------------------------------------------------------------------ C24
\* C24: a pool is constructed with the config given on the call that
\* constructs it, or the manager's default when none is given; its config
\* and id never change afterwards; and a get_pool for an id that has a pool
\* returns that pool and changes neither it nor the catalog, whatever config
\* the call passes.
C24_FirstConfigWins ==
    [][/\ \A p \in PoolObjs :
            IF pool[p].data_source_id # NoId
            THEN /\ pool'[p].config = pool[p].config
                 /\ pool'[p].data_source_id = pool[p].data_source_id
            ELSE pool'[p].data_source_id # NoId
                    => \E t \in Callers :
                          /\ obj'[t] = p
                          /\ pool'[p].data_source_id = op'[t].id
                          /\ pool'[p].config =
                                IF op'[t].config = NoConfig
                                THEN DefaultConfig ELSE op'[t].config
       /\ \A t \in Callers :
            (Ends(t, "get_pool") /\ pools[ret'.call.id] # NoPool)
               => /\ ret'.kind = "returned"
                  /\ ret'.value = pools[ret'.call.id]
                  /\ UNCHANGED <<pools, pool>>]_vars

\* a get_pool call passing config c2 is about to enter the free lock for an
\* id whose pool was constructed with config c1
C24_Witness ==
    /\ MFree
    /\ \E t \in Callers :
          /\ cpc[t] = "gp_lock"
          /\ op[t].name = "get_pool"
          /\ op[t].config = "c2"
          /\ pools[op[t].id] # NoPool
          /\ pool[pools[op[t].id]].config = "c1"

\* caller t takes a step of its call of operation name in this step
StepOf(t, name) ==
    \/ Ends(t, name)
    \/ /\ cpc'[t] # cpc[t]
       /\ op[t].name = name \/ op'[t].name = name

\* the data source id of the call of caller t that takes this step
IdOf(t) ==
    IF op[t].name # "none" THEN op[t].id
    ELSE IF op'[t].name # "none" THEN op'[t].id ELSE ret'.call.id

\* C25: close_pool(id) closes the id's pool and removes it from the catalog
\* and touches no other pool and no other catalog entry; for an id without a
\* pool it changes nothing; it never raises; and the pool a get_pool returns
\* is the id's catalogued pool and is open, so after a close_pool it is a
\* new one.
C25_ClosePoolForgetsOne ==
    [][\A t \in Callers :
         /\ StepOf(t, "close_pool")
               => /\ \A j \in Ids \ {IdOf(t)} : pools'[j] = pools[j]
                  /\ \A q \in PoolObjs \ {pools[IdOf(t)]} : pool'[q] = pool[q]
                  /\ UNCHANGED configs
                  /\ pools[IdOf(t)] = NoPool => UNCHANGED <<pools, pool, cdisc>>
                  /\ Ends(t, "close_pool")
                        => /\ ret'.kind = "returned"
                           /\ pools'[IdOf(t)] = NoPool
                           /\ pools[IdOf(t)] # NoPool
                                 => /\ pool'[pools[IdOf(t)]].closed
                                    /\ pool'[pools[IdOf(t)]].connections = {}
         /\ Ends(t, "get_pool")
               => /\ pools'[IdOf(t)] = ret'.value
                  /\ ~pool'[ret'.value].closed]_vars

\* close_pool has just returned: the pool of its id is closed and gone from
\* the catalog, the pool of another id is still catalogued and open
C25_Witness ==
    /\ ret.call.name = "close_pool"
    /\ ret.kind = "returned"
    /\ pools[ret.call.id] = NoPool
    /\ \E p \in PoolObjs :
          pool[p].closed /\ pool[p].data_source_id = ret.call.id
    /\ \E j \in Ids \ {ret.call.id} :
          pools[j] # NoPool /\ ~pool[pools[j]].closed

\* C26: when close_all() ends it returns (nothing is raised), the catalog is
\* empty, and every pool that was in the catalog has been closed.
C26_CloseAllClosesAll ==
    [][\A t \in Callers :
         Ends(t, "close_all")
            => /\ ret'.kind = "returned"
               /\ \A i \in Ids :
                     /\ pools'[i] = NoPool
                     /\ pools[i] # NoPool => pool'[pools[i]].closed]_vars

\* close_all has just returned after closing the pools of two ids
C26_Witness ==
    /\ ret.call.name = "close_all"
    /\ ret.kind = "returned"
    /\ Catalogued = {}
    /\ \E p, q \in PoolObjs :
          /\ pool[p].closed /\ pool[q].closed
          /\ pool[p].data_source_id # NoId
          /\ pool[q].data_source_id # NoId
          /\ pool[p].data_source_id # pool[q].data_source_id

\* C27: when the pooled registry's unregister_data_source(id) returns,
\* neither a pool nor a configuration exists for the id; when it raises the
\* not-found RegistryError the configurations are unchanged.
C27_UnregisterLeavesNothing ==
    [][\A t \in Callers :
         Ends(t, "unregister")
            => IF ret'.kind = "returned"
               THEN /\ pools'[IdOf(t)] = NoPool
                    /\ configs'[IdOf(t)] = NotStored
               ELSE /\ ret'.kind = "RegistryError"
                    /\ UNCHANGED configs]_vars

\* unregister_data_source(id) has just returned, and the catalog holds an
\* open pool of the id on which a get_connector(id) is acquiring
C27_Witness ==
    /\ ret.call.name = "unregister"
    /\ ret.kind = "returned"
    /\ configs[ret.call.id] = NotStored
    /\ pools[ret.call.id] # NoPool
    /\ ~pool[pools[ret.call.id]].closed
    /\ \E u \in Callers :
          /\ cpc[u] = "gc_acquire"
          /\ op[u].id = ret.call.id
          /\ obj[u] = pools[ret.call.id]

\* C28: when the pooled registry's disconnect_all() returns, the catalog has
\* no pools and the stored configurations are what they were.
C28_DisconnectAllLeavesNoPool ==
    [][\A t \in Callers :
         /\ StepOf(t, "disconnect_all") => UNCHANGED configs
         /\ Ends(t, "disconnect_all")
               => /\ ret'.kind = "returned"
                  /\ \A i \in Ids : pools'[i] = NoPool]_vars

\* disconnect_all() has just returned, and the catalog holds an open pool
\* on which a get_connector is acquiring
C28_Witness ==
    /\ ret.call.name = "disconnect_all"
    /\ ret.kind = "returned"
    /\ \E u \in Callers :
          /\ cpc[u] = "gc_acquire"
          /\ pools[op[u].id] = obj[u]
          /\ ~pool[obj[u]].closed

\* C29: the pooled registry's get_connector(id) for an id without stored
\* configuration raises RegistryError at once, goes no further (no get_pool,
\* no acquire) and changes no pool and no catalog entry; for an id with a
\* configuration it ends with a connector or with the pool's PoolError.
C29_UnknownIdRaisesRegistryError ==
    [][\A t \in Callers :
         /\ (cpc[t] = "idle" /\ op'[t].name = "get_connector")
               => configs[op'[t].id] # NotStored
         /\ Ends(t, "get_connector")
               => IF cpc[t] = "idle" /\ configs[IdOf(t)] = NotStored
                  THEN /\ ret'.kind = "RegistryError"
                       /\ UNCHANGED <<pools, pool, mlock, cdisc>>
                  ELSE ret'.kind \in {"returned", "PoolError"}]_vars

\* get_connector has just raised RegistryError for an id that has no
\* configuration while another id has a configuration and a pool
C29_Witness ==
    /\ ret.call.name = "get_connector"
    /\ ret.kind = "RegistryError"
    /\ configs[ret.call.id] = NotStored
    /\ pools[ret.call.id] = NoPool
    /\ \E j \in Ids : configs[j] # NotStored /\ pools[j] # NoPool

\* C30: a register_data_source that ends with ConnectionError was called with
\* connection testing, has stored nothing (the configurations are those of
\* the step before and of the moment the test began, and do not hold the
\* id) and has disconnected the connector it tested; while a test is in
\* progress no step of any caller changes the configurations.
C30_FailedTestStoresNothing ==
    [][\A t \in Callers :
         /\ cpc[t] \in {"rg_test", "rg_fail"} => UNCHANGED configs
         /\ (Ends(t, "register") /\ ret'.kind = "ConnectionError")
               => /\ op[t].test
                  /\ cpc[t] = "rg_fail"
                  /\ configs'[IdOf(t)] = NotStored
                  /\ cdisc'[tst[t]] = 1
                  /\ tst[t] \notin ReferencedConnectors']_vars

\* a register_data_source has just raised ConnectionError: its id has no
\* configuration and its test connector, in no pool, was disconnected once
C30_Witness ==
    /\ ret.call.name = "register"
    /\ ret.call.test
    /\ ret.kind = "ConnectionError"
    /\ configs[ret.call.id] = NotStored
    /\ \E c \in Connectors \ ReferencedConnectors : cdisc[c] = 1

\* C31: a register_data_source for an id that has a stored configuration
\* ends with RegistryError and changes no stored configuration; no step of a
\* registration replaces the configuration stored for an id; and a
\* registration that returns found the id without configuration and stored
\* its own, so of two registrations of one id with no unregister between
\* them exactly one succeeds.
C31_DuplicateIdRejected ==
    [][\A t \in Callers :
         /\ StepOf(t, "register")
               => \A i \in Ids :
                     configs[i] # NotStored => configs'[i] = configs[i]
         /\ Ends(t, "register")
               => CASE ret'.kind = "RegistryError"
                         -> /\ configs[IdOf(t)] # NotStored
                            /\ UNCHANGED configs
                    [] ret'.kind = "returned"
                         -> /\ configs[IdOf(t)] = NotStored
                            /\ configs'[IdOf(t)] =
                                  _encrypt_config(ret'.call.config)
                    [] OTHER -> ret'.kind = "ConnectionError"]_vars

\* a registration of an id with the first configuration has just raised
\* RegistryError, and the id keeps the second configuration, which an
\* earlier registration stored
C31_Witness ==
    /\ ret.call.name = "register"
    /\ ret.kind = "RegistryError"
    /\ ret.call.config = "a"
    /\ configs[ret.call.id] = _encrypt_config("b")
\* ------------------------------------- claims on the registry without pools
\* C32: in the registry without pools, a get_connector(id) that returns
\* hands out the connector stored for the id, connected, and the same one
\* that was stored before the call if there was one; a step of
\* get_connector makes a new connector only when none is stored for the id
\* and starts connect() on the stored one only when it is not connected,
\* each under the registry's lock; a failed connect of a new connector
\* ends with ConnectionError and stores nothing; and no connector is stored
\* for two ids.
C32_OneConnectorPerId ==
    [][/\ \A i, j \in Ids :
            (i # j /\ _connectors'[i] # NoConnector)
               => _connectors'[i] # _connectors'[j]
       /\ \A t \in Callers :
            /\ (Ends(t, "get_connector") /\ ret'.kind = "returned")
                  => /\ ret'.value # NoConnector
                     /\ ret'.value = _connectors'[IdOf(t)]
                     /\ ret'.value \in connected'
                     /\ _connectors[IdOf(t)] # NoConnector
                           => _connectors'[IdOf(t)] = _connectors[IdOf(t)]
            /\ (StepOf(t, "get_connector") /\ tst'[t] # tst[t]
                  /\ tst'[t] # NoConnector)
                  => /\ _connectors[IdOf(t)] = NoConnector
                     /\ rlock' = {t}
            /\ (StepOf(t, "get_connector") /\ cpc'[t] = "bg_reconnect")
                  => /\ _connectors[IdOf(t)] # NoConnector
                     /\ _connectors[IdOf(t)] \notin connected
                     /\ rlock' = {t}
            /\ (Ends(t, "get_connector") /\ cpc[t] = "bg_connect"
                  /\ ret'.kind # "returned")
                  => /\ ret'.kind = "ConnectionError"
                     /\ _connectors'[IdOf(t)] = NoConnector
                     /\ UNCHANGED _connectors]_vars

\* a get_connector has just returned the connector stored for its id,
\* after connecting it again: it had been disconnected once
C32_Witness ==
    /\ ret.call.name = "get_connector"
    /\ ret.kind = "returned"
    /\ ret.value = _connectors[ret.call.id]
    /\ ret.value \in connected
    /\ cdisc[ret.value] = 1

\* ------------------------------------------------ further claims on the pool
\* C33: a step of a borrower's acquire or release that takes a handle out of
\* the live set or the available queue, or puts one in, is taken with the
\* pool's lock in the borrower's hands (held before or after the step, or
\* free on both sides of a step that enters and leaves it).
C33_MutatedUnderLock ==
    [][\A t \in Borrowers :
         (pc'[t] # pc[t]
            /\ (available' # available \/ connections' # connections))
            => \/ lock = {t}
               \/ lock' = {t}
               \/ lock = {} /\ lock' = {}]_vars

\* a borrower has a handle that was used and released before, which it took
\* out of the queue and has not yet marked in use, while another borrower
\* holds the lock in the health test of its release
C33_Witness ==
    \E t, u \in Borrowers :
       /\ t # u
       /\ pc[t] = "a_got"
       /\ conn[t] \in connections
       /\ use_count[conn[t]] = 1
       /\ ~in_use[conn[t]]
       /\ lock = {u}
       /\ pc[u] = "r_test"

\* C34: a sweep pass that selects a handle which is idle too long but not
\* expired leaves no expired handle that is not in use unselected.
C34_ExpiredBeforeIdle ==
    [][(spc = "s_sleep" /\ spc' = "s_remove")
          => \A h \in Range(to_remove') :
                ~is_expired(h)'
                   => \A g \in connections \ Range(to_remove') :
                         ~(is_expired(g)' /\ ~in_use[g])]_vars

\* a pass is removing a handle that is only idle too long, and an older,
\* expired handle that no borrower uses or is taking stays in the pool
C34_Witness ==
    /\ spc = "s_remove"
    /\ \A t \in Borrowers : pc[t] = "idle"
    /\ \E h \in Range(to_remove), g \in connections \ Range(to_remove) :
          /\ g < h
          /\ ~is_expired(h)
          /\ is_idle_too_long(h)
          /\ is_expired(g)
          /\ ~in_use[g]
          /\ g \in Range(available)

\* C35: an acquire that enters the lock with the queue empty and fewer than
\* max_size live handles calls the factory once for a new handle, holding
\* the lock, and does not wait on the queue; when connect() returns, exactly
\* that handle joins the live set, without another factory call and without
\* touching the queue; and the acquire then returns it, marked in use, to
\* its borrower.
C35_AcquireCreatesOne ==
    [][\A t \in Borrowers :
         /\ (/\ \/ (pc[t] = "a_begin" /\ Free)
                 \/ (pc[t] = "a_lock" /\ pc'[t] \notin {"a_lock", "idle"})
              /\ pc'[t] # pc[t]
              /\ available = <<>>
              /\ size < cfg.max_size)
               => /\ pc'[t] = "a_connect"
                  /\ made'
                  /\ conn'[t] \in Handles \ connections
                  /\ lock' = {t}
                  /\ UNCHANGED <<connections, available>>
         /\ (pc[t] = "a_connect" /\ pc'[t] = "a_got")
               => /\ connections' = connections \cup {conn[t]}
                  /\ Cardinality(connections') = size + 1
                  /\ ~made'
                  /\ UNCHANGED <<available, conn>>
         /\ (pc[t] = "a_got" /\ pc'[t] = "idle")
               => /\ raised' = "none"
                  /\ held'[t] = held[t] \cup {conn[t]}
                  /\ in_use'[conn[t]]]_vars

\* two acquires in a row, no release: a borrower holds two connectors, both
\* handles were made on demand and used once, the pool of max_size 2 is full
\* and all of it is in use
C35_Witness ==
    /\ cfg = [max_size |-> 2, min_size |-> 0]
    /\ nAcq = 2
    /\ \E t \in Borrowers : Cardinality(held[t]) = 2
    /\ \A t \in Borrowers : pc[t] = "idle"
    /\ size = 2
    /\ in_use_count = 2
    /\ available = <<>>
    /\ \A h \in connections : use_count[h] = 1

\* C36: when the connection an acquire is creating does not come up, the
\* acquire ends there with a PoolError ("Failed to create connection", or
\* the timeout's when wait_for cancelled the connect): the factory is not
\* called again, the live set, the queue and what the borrowers hold are as
\* they were, the caller keeps no handle, and the lock it held is free.
C36_CreateFailureSurfaces ==
    [][\A t \in Borrowers :
         (pc[t] = "a_connect" /\ pc'[t] # "a_got" /\ pc'[t] # pc[t])
            => /\ lock = {t}
               /\ ~made'
               /\ pc'[t] = "idle"
               /\ raised' \in {"create_failed", "timeout"}
               /\ conn'[t] = NoHandle
               /\ lock' = {}
               /\ UNCHANGED <<connections, available, held, in_use>>]_vars

\* a creation has just failed while another acquire waits for the lock,
\* which is now free for it; the pool still has a handle in its queue
C36_Witness ==
    /\ raised = "create_failed"
    /\ lock = {}
    /\ \E t \in Borrowers : pc[t] = "a_lock"
    /\ \E t \in Borrowers : pc[t] = "idle" /\ conn[t] = NoHandle
    /\ size = 1
    /\ size < cfg.max_size

\* C37: no handle occurs twice in the available queue, also when callers
\* release a connector again that they have already released.
C37_QueuedOnce ==
    \A i, j \in DOMAIN available : i # j => available[i] # available[j]

\* a connector was released twice and two acquires have returned it: both
\* borrowers hold the pool's only connector
C37_Witness ==
    /\ \E h \in connections : \A t \in Borrowers : held[t] = {h}
    /\ size = 1
    /\ ~closed
    /\ \A t \in Borrowers : pc[t] = "idle"

\* C38: once close() has completed, no step of an acquire that is still in
\* progress adds a handle to the live set, and an acquire that returns then
\* does not return a connector whose disconnect has been invoked.
C38_NoHandleAfterClose ==
    [][\A t \in Borrowers :
         CloseCompleted
            => /\ (pc[t] = "a_connect" /\ pc'[t] # pc[t])
                    => connections' \subseteq connections
               /\ (pc[t] = "a_got" /\ pc'[t] = "idle")
                    => disc[conn[t]] = 0]_vars

\* close() has completed on a pool with min_size 0, which initialize() does
\* not fill, and nothing is in progress: the closed pool has a live handle,
\* in use by the borrower whose acquire had passed the closed check when
\* close() ran
C38_Witness ==
    /\ CloseCompleted
    /\ cfg.min_size = 0
    /\ spc \in {"none", "done"}
    /\ \A t \in Borrowers : pc[t] = "idle"
    /\ \E t \in Borrowers : \E h \in held[t] \cap connections :
          in_use[h] /\ disc[h] = 0

\* ---------------------------------------------- further claims on the catalog
\* C39: a get_connector(id) call of the pooled registry puts a pool for the
\* id into the catalog only while the id has a stored configuration, also
\* when an unregister_data_source(id) ran while the call was in progress.
C39_PoolHasConfiguration ==
    [][\A t \in Callers :
         (StepOf(t, "get_connector") /\ pools'[IdOf(t)] # pools[IdOf(t)])
            => configs'[IdOf(t)] # NotStored]_vars

\* unregister_data_source(id) has closed the id's pool, removed the
\* configuration and returned; a get_connector(id) that found the
\* configuration while the pool was being closed has then entered the
\* manager's lock and is initializing a new pool for the id, which it
\* will put into the catalog; no other call is in progress
C39_Witness ==
    \E i \in Ids :
       /\ configs[i] = NotStored
       /\ pools[i] = NoPool
       /\ \E p \in PoolObjs : pool[p].closed /\ pool[p].data_source_id = i
       /\ \E u \in Callers :
             /\ cpc[u] = "gp_init"
             /\ op[u].name = "get_connector"
             /\ op[u].id = i
             /\ ~pool[obj[u]].closed
             /\ \A v \in Callers \ {u} : cpc[v] = "idle"
====
